---- MODULE Spec2Model ----
(***************************************************************************)
(* Model of the ingestion pipeline of InfraDbToArangoDb: the Initial Fill  *)
(* Engine (InitialFillStep.fill_tables and the per-resource fill loops,    *)
(* sequential and producer/consumer), the params progress documents, the   *)
(* upstream paging generators, the Extra Fill Engine, the Schema           *)
(* Provisioner (CreateDBStep) and the Pipeline Controller.                 *)
(***************************************************************************)
EXTENDS Integers, Sequences, FiniteSets, TLC

\* ---------------------------------------------------------------- bounds
MaxFaults == 1          \* raised upstream/handler/storage calls per behaviour
MaxCrashes == 1         \* process terminations per behaviour
PageSize == 2           \* page_size handed to the generators
MaxTotal == 3           \* largest totalCount of an offset-paged resource
MaxRetries == 3         \* largest retries a requester is constructed with

\* ------------------------------------------------------- program constants
MAX_WORKERS == 8
DEFAULT_QUEUE_SIZE == 3

Null == -1              \* Python None (cursor / from)
Sentinel == -2          \* the None put on the queue by the producer
NoPage == -3

Min(a, b) == IF a < b THEN a ELSE b
Max(a, b) == IF a > b THEN a ELSE b

\* ------------------------------------------------------------- resources
Resources == {"assettypes", "relatietypes", "assets", "assetrelaties"}

\* fill_resource_groups handed to fill_tables: lookups first, then the
\* resources that depend on them.
Groups == << <<"assettypes", "relatietypes">>, <<"assets", "assetrelaties">> >>

NumGroups == Len(Groups)

\* _fill_resource: the resources filled through the EMSON client.
EmsonResources == {"assets", "assetrelaties", "betrokkenerelaties"}

UsesEmson(r) == r \in EmsonResources

\* _select_eminfra_generator: resources iterated with the cursor generator.
EmInfraCursorResources == {"agents", "betrokkenerelaties"}

UsesCursor(r) == UsesEmson(r) \/ r \in EmInfraCursorResources

\* ------------------------------------------------------------- upstreams
\* An offset-paged upstream is its totalCount; a cursor-paged upstream is
\* the sequence of its pages, each the set of records of its @graph.
OffsetUpstreams == { [total |-> t, pages |-> << >>] : t \in {0, MaxTotal} }

CursorUpstreams ==
    { [total |-> 0, pages |-> ps] :
        ps \in { << {} >>, << {1}, {}, {3}, {4} >> } }

\* ExtraFillStep.execute: resources_to_fill
resources_to_fill ==
    << "assettypes", "vplankoppelingen", "aansluitingrefs", "aansluitingen",
       "voedt_relaties", "sturing_relaties", "bevestiging_relaties",
       "hoortbij_relaties" >>

ExtraResources == { resources_to_fill[i] : i \in DOMAIN resources_to_fill }

\* The passes that walk a sorted key list and persist the last key in from.
KeyedPasses == {"assettypes", "vplankoppelingen"}

\* The passes that only mark their params document.
MarkOnlyPasses == {"aansluitingrefs", "aansluitingen"}

DerivedPasses == ExtraResources \ (KeyedPasses \cup MarkOnlyPasses)

\* The collections the extra passes are responsible for, beside
\* vplankoppelingen.
ExtraCollections == DerivedPasses \cup MarkOnlyPasses

\* The keys fill_<r> of the params collection.
FillKeys == Resources \cup ExtraResources

UpstreamsOf(r) == IF UsesCursor(r) THEN CursorUpstreams ELSE OffsetUpstreams

\* An upstream without any record.
IsEmptyUpstream(u) == u.total = 0 /\ \A i \in DOMAIN u.pages : u.pages[i] = {}

\* The combinations of empty upstreams the fill is run against.
EmptyUpstreamSets ==
    { {}, {"assetrelaties"}, {"assettypes", "assetrelaties"}, Resources }

\* ------------------------------------------------------------ step marker
\* Enums.DBStep, in declaration order; NoStep is get_db_step() returning None.
DBStep ==
    << "CREATE_DB", "INITIAL_FILL", "EXTRA_DATA_FILL", "CREATE_INDEXES",
       "APPLY_CONSTRAINTS", "FINAL_SYNC" >>

NoStep == "none"

DBSteps == { DBStep[i] : i \in DOMAIN DBStep }

\* The position of a marker value in the pipeline order (0 for no marker).
StepRank(step) ==
    IF step = NoStep THEN 0 ELSE CHOOSE i \in DOMAIN DBStep : DBStep[i] = step

\* --------------------------------------------------------------- schema
\* CreateDBStep.execute: doc_collections and edge_collections.
doc_collections ==
    << "params", "assets", "assettypes", "relatietypes", "agents",
       "toezichtgroepen", "identiteiten", "beheerders", "bestekken",
       "vplankoppelingen", "aansluitingrefs" >>

edge_collections ==
    << "assetrelaties", "betrokkenerelaties", "bestekkoppelingen",
       "aansluitingen", "voedt_relaties", "sturing_relaties",
       "bevestiging_relaties", "hoortbij_relaties" >>

\* default_docs: the keys of the feed markers.
FeedKeys ==
    { "feed_assetrelaties", "feed_betrokkenerelaties", "feed_agents",
      "feed_assets" }

\* {"_key": ..., "page": -1, "event_uuid": None}
DefaultFeed == [exists |-> TRUE, page |-> -1, event_uuid |-> Null]

NoFeed == [exists |-> FALSE, page |-> -1, event_uuid |-> Null]

\* The collection names of the model that start with "_".
SystemNames == { "_users" }

\* Databases the pipeline can be pointed at: [collections, graphs, db_step,
\* feeds].  A database without params has neither marker nor feed documents.
SystemCollections == { [name |-> n, edge |-> FALSE] : n \in SystemNames }

EmptyDatabase ==
    [collections |-> SystemCollections, graphs |-> {}, db_step |-> NoStep,
     feeds |-> [k \in FeedKeys |-> NoFeed]]

\* Left-overs of an earlier load whose params collection was dropped
\* (arangolooprunner.delete_params_collection).
LegacyDatabase ==
    [collections |->
        SystemCollections \cup
        { [name |-> "assets", edge |-> FALSE],
          [name |-> "legacy_nodes", edge |-> FALSE],
          [name |-> "legacy_links", edge |-> TRUE] },
     graphs |-> { [name |-> "legacy_graph",
                   colls |-> {"legacy_nodes", "legacy_links"}] },
     db_step |-> NoStep,
     feeds |-> [k \in FeedKeys |-> NoFeed]]

VARIABLES
    params,        \* params collection: fill_<r> -> Absent or [fill, from]
    data,          \* data collections: resource -> set of stored records
    up,            \* the upstream behind every resource
    use_pipeline,  \* InitialFillStep.use_pipeline
    db_step,       \* params: the value of the db_step document
    flagged,       \* assettypes documents that carry the kenmerk flags
    vplankoppelingen,  \* assets whose plan couplings were upserted
    derived,       \* collections of the extra passes: collection -> documents
    phase,         \* what the process is executing: "idle", "create", "run", ...
    ex,            \* ExtraFillStep.execute: position and locals
    gi,            \* fill_tables: group_index (1-based)
    remaining,     \* fill_tables: remaining
    failed,        \* fill_tables: failed
    cpc,           \* fill_tables: position in the loop
    w,             \* the tasks of the current attempt, one per remaining[i]
    faults,        \* raised calls so far
    crashes,       \* process terminations so far
    ingested,      \* history: resource -> pages a handler call completed for
    cursorDone,    \* history: resource -> pages whose from-update completed
    lastPersist,   \* history: resource -> page whose cursor was persisted last
    returnedOk,    \* history: resources whose fill_resource returned cleanly
    collections,   \* the collections of the database: [name, edge]
    graphs,        \* the named graphs of the database: [name, colls]
    feeds,         \* params: the feed_<name> documents
    drv,           \* DBPipelineController.run / CreateDBStep.execute: locals
    ah,            \* one _insert_assets call: its page, locals and collections
    nk,            \* one key normalization: the raw record and its results
    pg,            \* one paging generator: its upstream, locals and yields
    rq,            \* one requester: retries and the attempts of one request
    dv             \* one derived-edge pass: its collections and params doc

vars == << params, data, db_step, flagged, vplankoppelingen, derived, ex,
           up, use_pipeline, phase, gi, remaining, failed, cpc,
           w, faults, crashes, ingested, cursorDone, lastPersist,
           returnedOk, collections, graphs, feeds, drv, ah, nk, pg, rq, dv >>

xdbVars == << db_step, flagged, vplankoppelingen, derived >>
dbVars == << params, data, xdbVars, ex >>
histVars == << ingested, cursorDone, lastPersist, returnedOk >>
ctlVars == << gi, remaining, failed, cpc >>
unitVars == << nk, pg, rq, dv >>
envVars == << up, use_pipeline, unitVars >>
schemaVars == << collections, graphs, feeds >>
provVars == << schemaVars, drv, ah >>

\* params.get(key) is None
Absent == [exists |-> FALSE, fill |-> TRUE, from |-> Null]

\* params_collection.insert({"_key": params_key, "fill": True, "from": None})
NewDoc == [exists |-> TRUE, fill |-> TRUE, from |-> Null]

\* ----------------------------------------------------- paging generators
\* "if not start_from: start_from = 0"; a null cursor asks for the first page.
PageOf(c) == IF c = Null \/ c = 0 THEN 0 ELSE c

\* get_resource_page: size the server returns for a request at offset from.
OffsetSize(total, from) == Max(0, Min(PageSize, total - from))

\* get_resource_page: the first component of the yielded pair.
OffsetNext(total, from) ==
    LET start_from == from + OffsetSize(total, from)
    IN  IF start_from >= total THEN Null ELSE start_from

OffsetData(total, from) == (from + 1) .. (from + OffsetSize(total, from))

\* get_resource_by_cursor: em-paging-next-cursor of the response to page p.
CursorNext(pages, p) == IF p + 1 < Len(pages) THEN p + 1 ELSE Null

CursorData(pages, p) == pages[p + 1]

\* The pair (cursor, dicts) the generator of resource r yields for page p.
YieldCursor(r, p) ==
    IF UsesCursor(r) THEN CursorNext(up[r].pages, p)
    ELSE OffsetNext(up[r].total, p)

YieldItems(r, p) ==
    IF UsesCursor(r) THEN CursorData(up[r].pages, p)
    ELSE OffsetData(up[r].total, p)

\* ------------------------------------------------------------------ tasks
NewTask(r) ==
    [res |-> r, pc |-> "start", page |-> NoPage, gen |-> Null,
     ppc |-> "off", pitem |-> NoPage, q |-> << >>, collected |-> FALSE,
     yielded |-> << >>, handled |-> << >>, froms |-> << >>,
     from0 |-> Null, hraised |-> FALSE]

Slots == DOMAIN w

Pipelined(r) == use_pipeline /\ UsesEmson(r)

\* __init__: pipeline_queue_size = max(1, pipeline_queue_size)
pipeline_queue_size == Max(1, DEFAULT_QUEUE_SIZE)

ExOff == [pc |-> "off", i |-> 1, start_from |-> Null, keys |-> << >>, k |-> 1]

\* The locals of DBPipelineController.run and of CreateDBStep.execute:
\* position, loop index i, creation index k, whether params was missing,
\* the collections and graphs present when execute began, the collections
\* dropped since, the engine that ran last.
DrvOff ==
    [pc |-> "off", i |-> 0, k |-> 0, fresh |-> FALSE, before |-> {},
     gbefore |-> {}, dropped |-> {}, ran |-> "none"]

\* The locals of one _insert_assets call and the two collections it writes.
AhOff ==
    [pc |-> "off", page |-> << >>, lookup |-> {}, i |-> 1,
     docs_batch |-> << >>, kopp_batch |-> << >>, unknown_type_uris |-> 0,
     assets |-> {}, bestekkoppelingen |-> {}, imported |-> << >>,
     kimported |-> << >>, pass |-> 1, keys1 |-> {}, kkeys1 |-> {},
     uuid_calls |-> 0]

\* The functions applied on their own are not running.
NkOff == [pc |-> "off"]

PgOff == [pc |-> "off"]

RqOff == [pc |-> "off"]

DvOff == [pc |-> "off"]

UnitsOff == nk = NkOff /\ pg = PgOff /\ rq = RqOff /\ dv = DvOff

Init ==
    /\ params = [r \in FillKeys |-> Absent]
    /\ data = [r \in Resources |-> {}]
    /\ db_step = LegacyDatabase.db_step
    /\ collections = LegacyDatabase.collections
    /\ graphs = LegacyDatabase.graphs
    /\ feeds = LegacyDatabase.feeds
    /\ drv = DrvOff
    /\ ah = AhOff
    /\ UnitsOff
    /\ flagged = {}
    /\ vplankoppelingen = {}
    /\ derived = [c \in ExtraCollections |-> {}]
    /\ ex = ExOff
    /\ up \in [Resources -> OffsetUpstreams \cup CursorUpstreams]
    /\ \A r \in Resources : up[r] \in UpstreamsOf(r)
    /\ { r \in Resources : IsEmptyUpstream(up[r]) } \in EmptyUpstreamSets
    /\ use_pipeline \in BOOLEAN
    /\ phase = "idle"
    /\ gi = 1
    /\ remaining = << >>
    /\ failed = << >>
    /\ cpc = "off"
    /\ w = << >>
    /\ faults = 0
    /\ crashes = 0
    /\ ingested = [r \in Resources |-> {}]
    /\ cursorDone = [r \in Resources |-> {}]
    /\ lastPersist = [r \in Resources |-> NoPage]
    /\ returnedOk = {}


\* ------------------------------------------------- per-resource handlers
\* _resource_handlers: the handler of assetrelaties calls
\* self._insert_asset_relations, which InitialFillStep does not define.
HandlerDefined(r) == r # "assetrelaties"

\* The asset-type an asset record refers to by its @type.
AssetTypeOf(a) == a

\* _insert_assets: records whose @type is not in the asset-type lookup are
\* skipped; every other handler imports one document per record.
Imported(d, r, items) ==
    IF r = "assets"
    THEN { a \in items : AssetTypeOf(a) \in d["assettypes"] }
    ELSE items

\* _insert_resource_data on a non-empty page: the records are stored.
insert_resource_data(d, r, items) ==
    [d EXCEPT ![r] = @ \cup Imported(d, r, items)]

\* "if dicts:"
HasDictsAlways(items) == TRUE

HasNoDicts(items) == items = {}

HasDicts(items) == items # {}

\* "if not params_resource.get("fill", True):"
AlreadyFilledNever(doc) == FALSE

AlreadyFilled(doc) == ~doc.fill

\* UPDATE @key WITH { from: @start_from } IN params
UpdateFrom(doc, cursor) == [doc EXCEPT !.from = cursor]

\* UPDATE @key WITH { from: @start_from, fill: @fill } IN params
UpdateFilledKeepFill(doc) == [doc EXCEPT !.from = Null]

UpdateFilledKeepFrom(doc) == [doc EXCEPT !.fill = FALSE]

UpdateFilled(doc) == [doc EXCEPT !.from = Null, !.fill = FALSE]

\* ------------------------------------------------------- the worker pool
Running(t) == t.pc \notin {"start", "returned", "raised"}

\* max_workers = min(len(remaining), MAX_WORKERS)
max_workers == Min(Len(remaining), MAX_WORKERS)

WorkerFree == Cardinality({i \in Slots : Running(w[i])}) < max_workers

\* ------------------------------------------- fill_resource, common steps
\* Lines 208-218 / 311-323: ensure the params doc, skip when filled, start
\* the generator (or the producer and the consumer) at the persisted from.
FillStart(s) ==
    LET t == w[s]
        r == t.res
        doc == IF params[r].exists THEN params[r] ELSE NewDoc
    IN  /\ phase = "initial"
        /\ t.pc = "start"
        /\ WorkerFree
        /\ params' = [params EXCEPT ![r] = doc]
        /\ w' = [w EXCEPT ![s] =
                IF AlreadyFilled(doc) THEN [t EXCEPT !.pc = "returned"]
                ELSE IF Pipelined(r)
                     THEN [t EXCEPT !.pc = "get", !.ppc = "fetch",
                                    !.gen = doc.from, !.from0 = doc.from]
                     ELSE [t EXCEPT !.pc = "fetch", !.gen = doc.from,
                                    !.from0 = doc.from]]
        /\ UNCHANGED << data, xdbVars, ex, envVars, provVars, phase, ctlVars, faults,
                        crashes, histVars >>

\* One iteration of the generator behind "for cursor, dicts in ...".
SeqFetch(s) ==
    LET t == w[s]
        p == PageOf(t.gen)
    IN  /\ phase = "initial"
        /\ t.pc = "fetch"
        /\ w' = [w EXCEPT ![s] =
                [t EXCEPT !.pc = "handle", !.page = p,
                          !.gen = YieldCursor(t.res, p),
                          !.yielded = Append(@, p)]]
        /\ UNCHANGED << dbVars, envVars, provVars, phase, ctlVars, faults, crashes,
                        histVars >>

\* "if dicts: self._insert_resource_data(db, resource, dicts)"
Handle(s) ==
    LET t == w[s]
        r == t.res
        items == YieldItems(r, t.page)
    IN  /\ phase = "initial"
        /\ t.pc = "handle"
        /\ ~HasDicts(items) \/ HandlerDefined(r)
        /\ data' = IF HasDicts(items)
                   THEN insert_resource_data(data, r, items) ELSE data
        /\ ingested' = IF HasDicts(items)
                       THEN [ingested EXCEPT ![r] = @ \cup {t.page}]
                       ELSE ingested
        /\ w' = [w EXCEPT ![s] =
                [t EXCEPT !.pc = "persist",
                          !.handled = IF HasDicts(items)
                                      THEN Append(@, t.page) ELSE @]]
        /\ UNCHANGED << params, xdbVars, ex, envVars, provVars, phase, ctlVars, faults,
                        crashes, cursorDone, lastPersist, returnedOk >>

\* "persist progress": from := cursor; on the last page go on to mark.
PersistProgress(s) ==
    LET t == w[s]
        r == t.res
        cursor == YieldCursor(r, t.page)
    IN  /\ phase = "initial"
        /\ t.pc = "persist"
        /\ params[r].exists
        /\ params' = [params EXCEPT ![r] = UpdateFrom(@, cursor)]
        /\ cursorDone' = [cursorDone EXCEPT ![r] = @ \cup {t.page}]
        /\ lastPersist' = [lastPersist EXCEPT ![r] = t.page]
        /\ w' = [w EXCEPT ![s] =
                [t EXCEPT !.pc = IF cursor = Null THEN "mark"
                                 ELSE IF t.ppc = "off" THEN "fetch"
                                 ELSE "get",
                          !.froms = Append(@, cursor)]]
        /\ UNCHANGED << data, xdbVars, ex, envVars, provVars, phase, ctlVars, faults,
                        crashes, ingested, returnedOk >>

\* "if cursor is None": fill := false, from := null, and the loop ends.
MarkFilled(s) ==
    LET t == w[s]
        r == t.res
    IN  /\ phase = "initial"
        /\ t.pc = "mark"
        /\ params[r].exists
        /\ params' = [params EXCEPT ![r] = UpdateFilled(@)]
        /\ w' = [w EXCEPT ![s] =
                [t EXCEPT !.pc = IF t.ppc = "off" THEN "returned"
                                 ELSE "cdone",
                          !.froms = Append(@, Null)]]
        /\ UNCHANGED << data, xdbVars, ex, envVars, provVars, phase, ctlVars, faults,
                        crashes, histVars >>

\* A call of the sequential loop raises: the connection or the params read,
\* the upstream request, the handler (possibly after part of the page was
\* imported) or a params update.
TaskRaises(s) ==
    LET t == w[s]
        r == t.res
        items == IF t.pc = "handle" THEN YieldItems(r, t.page) ELSE {}
    IN  /\ phase = "initial"
        /\ t.ppc = "off"
        /\ \/ t.pc \in {"start", "fetch", "persist", "mark"}
           \/ t.pc = "handle" /\ HasDicts(items)
        /\ \/ faults < MaxFaults /\ faults' = faults + 1
           \/ t.pc = "handle" /\ ~HandlerDefined(r) /\ faults' = faults
        /\ \E part \in SUBSET items :
              /\ part # items \/ items = {}
              /\ HandlerDefined(r) \/ part = {}
              /\ data' = insert_resource_data(data, r, part)
        /\ w' = [w EXCEPT ![s] = [t EXCEPT !.pc = "raised",
                                            !.hraised = (t.pc = "handle")]]
        /\ UNCHANGED << params, xdbVars, ex, envVars, provVars, phase, ctlVars, crashes,
                        histVars >>

\* ------------------------------------------------ pipeline mode (emson)
\* q.get() / q.put() on the FIFO Queue(maxsize = pipeline_queue_size).
QueuePopLast(q) == [item |-> q[Len(q)], rest |-> SubSeq(q, 1, Len(q) - 1)]

QueuePopSkip(q) ==
    [item |-> Head(q),
     rest |-> IF Len(q) > 1 THEN Tail(Tail(q)) ELSE Tail(q)]

QueuePop(q) == [item |-> Head(q), rest |-> Tail(q)]

QueueFullNever(q) == FALSE

QueueFull(q) == Len(q) >= pipeline_queue_size

\* producer: one iteration of the generator.
producer_fetch(s) ==
    LET t == w[s]
        p == PageOf(t.gen)
    IN  /\ phase = "initial"
        /\ t.ppc = "fetch"
        /\ w' = [w EXCEPT ![s] =
                [t EXCEPT !.ppc = "put", !.pitem = p,
                          !.gen = YieldCursor(t.res, p),
                          !.yielded = Append(@, p)]]
        /\ UNCHANGED << dbVars, envVars, provVars, phase, ctlVars, faults, crashes,
                        histVars >>

\* producer: q.put((cursor, dicts)); "if cursor is None: break".
producer_put(s) ==
    LET t == w[s]
    IN  /\ phase = "initial"
        /\ t.ppc = "put"
        /\ ~QueueFull(t.q)
        /\ w' = [w EXCEPT ![s] =
                [t EXCEPT !.q = Append(@, t.pitem),
                          !.ppc = IF YieldCursor(t.res, t.pitem) = Null
                                  THEN "sentinel" ELSE "fetch"]]
        /\ UNCHANGED << dbVars, envVars, provVars, phase, ctlVars, faults, crashes,
                        histVars >>

\* producer: q.put(None)
producer_sentinel(s) ==
    LET t == w[s]
    IN  /\ phase = "initial"
        /\ t.ppc = "sentinel"
        /\ ~QueueFull(t.q)
        /\ w' = [w EXCEPT ![s] =
                [t EXCEPT !.q = Append(@, Sentinel), !.ppc = "done"]]
        /\ UNCHANGED << dbVars, envVars, provVars, phase, ctlVars, faults, crashes,
                        histVars >>

\* producer: the upstream request raises; the sentinel is never put.
producer_raises(s) ==
    LET t == w[s]
    IN  /\ phase = "initial"
        /\ t.ppc = "fetch"
        /\ faults < MaxFaults
        /\ faults' = faults + 1
        /\ w' = [w EXCEPT ![s] = [t EXCEPT !.ppc = "failed"]]
        /\ UNCHANGED << dbVars, envVars, provVars, phase, ctlVars, crashes, histVars >>

\* consumer: item = q.get(); "if item is None: return".
consumer_get(s) ==
    LET t == w[s]
        got == QueuePop(t.q)
    IN  /\ phase = "initial"
        /\ t.ppc # "off"
        /\ t.pc = "get"
        /\ t.q # << >>
        /\ w' = [w EXCEPT ![s] =
                IF got.item = Sentinel
                THEN [t EXCEPT !.q = got.rest, !.pc = "cdone"]
                ELSE [t EXCEPT !.q = got.rest, !.pc = "handle",
                               !.page = got.item]]
        /\ UNCHANGED << dbVars, envVars, provVars, phase, ctlVars, faults, crashes,
                        histVars >>

\* consumer: the handler or a params update raises.
consumer_raises(s) ==
    LET t == w[s]
        r == t.res
        items == IF t.pc = "handle" THEN YieldItems(r, t.page) ELSE {}
    IN  /\ phase = "initial"
        /\ t.ppc # "off"
        /\ \/ t.pc \in {"persist", "mark"}
           \/ t.pc = "handle" /\ HasDicts(items)
        /\ \/ faults < MaxFaults /\ faults' = faults + 1
           \/ t.pc = "handle" /\ ~HandlerDefined(r) /\ faults' = faults
        /\ \E part \in SUBSET items :
              /\ part # items \/ items = {}
              /\ HandlerDefined(r) \/ part = {}
              /\ data' = insert_resource_data(data, r, part)
        /\ w' = [w EXCEPT ![s] = [t EXCEPT !.pc = "cfailed",
                                            !.hraised = (t.pc = "handle")]]
        /\ UNCHANGED << params, xdbVars, ex, envVars, provVars, phase, ctlVars, crashes,
                        histVars >>

\* "with ThreadPoolExecutor(max_workers=2)": f_prod.result(), f_cons.result()
\* and the executor's shutdown return once both threads have ended.
PipelineJoin(s) ==
    LET t == w[s]
    IN  /\ phase = "initial"
        /\ t.ppc \in {"done", "failed"}
        /\ t.pc \in {"cdone", "cfailed"}
        /\ w' = [w EXCEPT ![s] =
                [t EXCEPT !.pc = IF t.ppc = "failed" \/ t.pc = "cfailed"
                                 THEN "raised" ELSE "returned"]]
        /\ UNCHANGED << dbVars, envVars, provVars, phase, ctlVars, faults, crashes,
                        histVars >>

\* ------------------------------------------------------------ fill_tables
\* "remaining = failed"
NextRemainingAll(rem, fl) == rem

NextRemainingAppend(rem, fl) == rem \o fl

NextRemaining(rem, fl) == fl

\* The group is left only by the break of an attempt without failed task.
GroupLeftAlways(fl) == TRUE

GroupLeft(fl) == fl = << >>

\* "if current_step is None or current_step == DBStep.CREATE_DB"
DispatchCreateAlways(step) == TRUE

DispatchCreateOnFill(step) ==
    step = NoStep \/ step = "CREATE_DB" \/ step = "INITIAL_FILL"

DispatchCreate(step) == step = NoStep \/ step = "CREATE_DB"

\* "elif current_step == DBStep.INITIAL_FILL"
DispatchFill(step) == ~DispatchCreate(step) /\ step = "INITIAL_FILL"

\* The caller dispatches InitialFillStep.execute on the marker INITIAL_FILL:
\* fill_tables(fill_resource_groups) begins.
execute ==
    /\ phase = "idle"
    /\ DispatchFill(db_step)
    /\ phase' = "initial"
    /\ gi' = 1
    /\ remaining' = Groups[1]
    /\ failed' = << >>
    /\ cpc' = "submit"
    /\ w' = << >>
    /\ returnedOk' = {}
    /\ UNCHANGED << dbVars, envVars, provVars, faults, crashes, ingested, cursorDone,
                    lastPersist >>

\* "futures = {executor.submit(self._fill_resource_worker, r): r for r in
\* remaining}", with failed = [].
fill_tables_submit ==
    /\ phase = "initial"
    /\ cpc = "submit"
    /\ remaining # << >>
    /\ w' = [i \in 1 .. Len(remaining) |-> NewTask(remaining[i])]
    /\ failed' = << >>
    /\ cpc' = "wait"
    /\ UNCHANGED << dbVars, envVars, provVars, phase, gi, remaining, faults, crashes,
                    histVars >>

\* "for future in as_completed(futures)": future.result() returns or raises.
fill_tables_collect(s) ==
    LET t == w[s]
    IN  /\ phase = "initial"
        /\ cpc = "wait"
        /\ t.pc \in {"returned", "raised"}
        /\ ~t.collected
        /\ w' = [w EXCEPT ![s] = [t EXCEPT !.collected = TRUE]]
        /\ failed' = IF t.pc = "raised" THEN Append(failed, t.res)
                     ELSE failed
        /\ returnedOk' = IF t.pc = "returned" THEN returnedOk \cup {t.res}
                         ELSE returnedOk
        /\ UNCHANGED << dbVars, envVars, provVars, phase, gi, remaining, cpc, faults,
                        crashes, ingested, cursorDone, lastPersist >>

AllCollected == \A i \in Slots : w[i].collected

\* "if failed: ... time.sleep(RETRY_DELAY_SECONDS)"
fill_tables_backoff ==
    /\ phase = "initial"
    /\ cpc = "wait"
    /\ AllCollected
    /\ ~GroupLeft(failed)
    /\ cpc' = "sleep"
    /\ UNCHANGED << dbVars, envVars, provVars, phase, gi, remaining, failed, w, faults,
                    crashes, histVars >>

\* "remaining = failed; attempt += 1" after the sleep.
fill_tables_retry ==
    /\ phase = "initial"
    /\ cpc = "sleep"
    /\ remaining' = NextRemaining(remaining, failed)
    /\ cpc' = "submit"
    /\ w' = << >>
    /\ UNCHANGED << dbVars, envVars, provVars, phase, gi, failed, faults, crashes,
                    histVars >>

\* "else: ... break" and the next group of the enumerate loop; after the
\* last group fill_tables returns.
fill_tables_next_group ==
    /\ phase = "initial"
    /\ cpc = "wait"
    /\ AllCollected
    /\ GroupLeft(failed)
    /\ gi' = gi + 1
    /\ remaining' = IF gi + 1 <= NumGroups THEN Groups[gi + 1] ELSE << >>
    /\ cpc' = IF gi + 1 <= NumGroups THEN "submit" ELSE "cleanup"
    /\ w' = << >>
    /\ failed' = << >>
    /\ UNCHANGED << dbVars, envVars, provVars, phase, faults, crashes, histVars >>

\* 'FOR doc IN params FILTER LIKE(doc._key, "fill_%", true) REMOVE doc'
RemoveFillDocsNone(docs) == docs

RemoveFillDocs(docs) == [r \in DOMAIN docs |-> Absent]

\* _removed_fill_params: every fill_* document is removed; execute returns.
removed_fill_params ==
    /\ phase = "initial"
    /\ cpc = "cleanup"
    /\ params' = RemoveFillDocs(params)
    /\ phase' = "initial"
    /\ cpc' = "returned"
    /\ gi' = 1
    /\ ingested' = [r \in Resources |-> {}]
    /\ cursorDone' = [r \in Resources |-> {}]
    /\ lastPersist' = [r \in Resources |-> NoPage]
    /\ UNCHANGED << data, xdbVars, ex, envVars, provVars, remaining, failed, w, faults,
                    crashes, returnedOk >>

\* The process is terminated: only the database survives.
Crash ==
    /\ phase \in {"initial", "extra"}
    /\ crashes < MaxCrashes
    /\ crashes' = crashes + 1
    /\ phase' = "idle"
    /\ gi' = 1
    /\ remaining' = << >>
    /\ failed' = << >>
    /\ cpc' = "off"
    /\ w' = << >>
    /\ ex' = ExOff
    /\ UNCHANGED << params, data, xdbVars, envVars, provVars, faults, histVars >>

\* ------------------------------------------------------------ CreateDBStep
\* name.startswith("_")
StartsWithUnderscoreNever(n) == FALSE

StartsWithUnderscore(n) == n \in SystemNames

\* db.has_collection(name)
has_collection(cs, n) == \E c \in cs : c.name = n

\* db.delete_graph(name, ignore_missing=True, drop_collections=True)
delete_graph(cs, g) == { c \in cs : c.name \notin g.colls }

\* db.delete_collection(name, ignore_missing=True)
delete_collection(cs, n) == { c \in cs : c.name # n }

\* db.create_collection(name) / db.create_collection(name, edge=True)
create_collection(cs, c) == cs \cup { c }

\* The collections CreateDBStep.execute creates, in creation order.
FullDeclared ==
    [i \in 1 .. (Len(doc_collections) + Len(edge_collections)) |->
        IF i <= Len(doc_collections)
        THEN [name |-> doc_collections[i], edge |-> FALSE]
        ELSE [name |-> edge_collections[i - Len(doc_collections)],
              edge |-> TRUE]]

\* The copy of CreateDBStep in DBPipelineController.py creates these.
LocalDeclared ==
    << [name |-> "params", edge |-> FALSE], [name |-> "assets", edge |-> FALSE],
       [name |-> "assettypes", edge |-> FALSE] >>

\* default_docs, in list order.
default_docs ==
    << "feed_assetrelaties", "feed_betrokkenerelaties", "feed_agents",
       "feed_assets" >>

\* DBPipelineController.run dispatches the copies of the step classes that
\* its own module defines; CreateDBStep.execute is the class of
\* CreateDBStep.py.
Declared(ph) == IF ph = "run" THEN LocalDeclared ELSE FullDeclared

\* Only CreateDBStep.py drops the named graphs.
DropsGraphs(ph) == ph # "run"

\* params.insert({"_key": "db_step", "value": step.name}, overwrite=True)
set_db_step(step) == step

\* The state of the fill engines, which the provisioner and the controller
\* loop leave alone.
fillVars ==
    << params, data, flagged, vplankoppelingen, derived, ex, envVars, ctlVars,
       w, faults, histVars, ah >>

\* The caller dispatches CreateDBStep.execute on a marker that is None or
\* CREATE_DB.
dispatch_create_db ==
    /\ phase = "idle"
    /\ DispatchCreate(db_step)
    /\ phase' = "create"
    /\ drv' = [DrvOff EXCEPT !.pc = "cdb_check"]
    /\ UNCHANGED << fillVars, crashes, db_step, schemaVars >>

\* "if not db.has_collection("params")"
cdb_check ==
    LET fresh == ~has_collection(collections, "params")
    IN  /\ phase \in {"create", "run"}
        /\ drv.pc = "cdb_check"
        /\ drv' = [drv EXCEPT !.fresh = fresh,
                              !.before = { c.name : c \in collections },
                              !.gbefore = { g.name : g \in graphs },
                              !.dropped = {},
                              !.pc = IF ~fresh THEN "set_step"
                                     ELSE IF DropsGraphs(phase)
                                     THEN "drop_graphs"
                                     ELSE "drop_collections"]
        /\ UNCHANGED << fillVars, crashes, db_step, schemaVars, phase >>

\* "for graph in db.graphs(): db.delete_graph(...)"
cdb_drop_graph ==
    /\ phase \in {"create", "run"}
    /\ drv.pc = "drop_graphs"
    /\ IF graphs = {}
       THEN /\ drv' = [drv EXCEPT !.pc = "drop_collections"]
            /\ UNCHANGED << graphs, collections >>
       ELSE \E g \in graphs :
              /\ graphs' = graphs \ {g}
              /\ collections' = delete_graph(collections, g)
              /\ drv' = [drv EXCEPT !.dropped =
                            @ \cup { c.name : c \in collections \ collections' }]
    /\ UNCHANGED << fillVars, crashes, db_step, feeds, phase >>

\* "for col in db.collections(): if not name.startswith("_"): delete"
cdb_drop_collection ==
    LET droppable == { c \in collections : ~StartsWithUnderscore(c.name) }
    IN  /\ phase \in {"create", "run"}
        /\ drv.pc = "drop_collections"
        /\ IF droppable = {}
           THEN /\ drv' = [drv EXCEPT !.pc = "create", !.k = 1]
                /\ UNCHANGED collections
           ELSE \E c \in droppable :
                  /\ collections' = delete_collection(collections, c.name)
                  /\ drv' = [drv EXCEPT !.dropped = @ \cup {c.name}]
        /\ UNCHANGED << fillVars, crashes, db_step, graphs, feeds, phase >>

\* "for name in doc_collections: ..." and "for name in edge_collections: ..."
cdb_create_collection ==
    /\ phase \in {"create", "run"}
    /\ drv.pc = "create"
    /\ collections' = create_collection(collections, Declared(phase)[drv.k])
    /\ drv' = IF drv.k < Len(Declared(phase))
              THEN [drv EXCEPT !.k = @ + 1]
              ELSE [drv EXCEPT !.pc = "seed", !.k = 1]
    /\ UNCHANGED << fillVars, crashes, db_step, graphs, feeds, phase >>

\* params.insert_many(default_docs); the copy in DBPipelineController.py
\* inserts the documents one at a time.
cdb_seed ==
    /\ phase \in {"create", "run"}
    /\ drv.pc = "seed"
    /\ IF phase = "run"
       THEN /\ feeds' = [feeds EXCEPT ![default_docs[drv.k]] = DefaultFeed]
            /\ drv' = IF drv.k < Len(default_docs)
                      THEN [drv EXCEPT !.k = @ + 1]
                      ELSE [drv EXCEPT !.pc = "set_step"]
       ELSE /\ feeds' = [k \in FeedKeys |-> DefaultFeed]
            /\ drv' = [drv EXCEPT !.pc = "set_step"]
    /\ UNCHANGED << fillVars, crashes, db_step, graphs, collections, phase >>

\* set_db_step(db, DBStep.INITIAL_FILL), in both branches; execute returns.
cdb_set_step ==
    /\ phase \in {"create", "run"}
    /\ drv.pc = "set_step"
    /\ db_step' = set_db_step("INITIAL_FILL")
    /\ IF phase = "run"
       THEN /\ drv' = [drv EXCEPT !.pc = "stubs", !.ran = "create"]
            /\ phase' = phase
       ELSE /\ drv' = [drv EXCEPT !.pc = "off", !.ran = "create"]
            /\ phase' = "idle"
    /\ UNCHANGED << fillVars, crashes, schemaVars >>

\* ---------------------------------------------------------- ExtraFillStep
\* The result of the query as the storage returns it, here by falling key.
UnsortedSeq(S) ==
    CHOOSE f \in [1 .. Cardinality(S) -> S] :
        \A i, j \in 1 .. Cardinality(S) : i < j => f[i] > f[j]

\* sorted(db.aql.execute(query))
SortedSeq(S) ==
    CHOOSE f \in [1 .. Cardinality(S) -> S] :
        \A i, j \in 1 .. Cardinality(S) : i < j => f[i] < f[j]

\* get_kenmerktypes_by_asettype_uuid: the asset-types with a Vplan kenmerk.
HasVplanKenmerk(t) == t # 2

\* "FOR ast IN assettypes RETURN ast.uuid" / the assets whose asset-type has
\* vplan_kenmerk == true, sorted.
KeysOf(r) ==
    IF r = "assettypes" THEN SortedSeq(data["assettypes"])
    ELSE SortedSeq({ a \in data["assets"] :
                       /\ AssetTypeOf(a) \in data["assettypes"]
                       /\ AssetTypeOf(a) \in flagged
                       /\ HasVplanKenmerk(AssetTypeOf(a)) })

\* "if start_from and key < start_from: continue"
Skipped(start_from, key) == start_from # Null /\ key < start_from

\* The first index from k on whose key is not skipped; Len(keys) + 1 if none.
NextKey(keys, start_from, k) ==
    LET rest == { j \in k .. Len(keys) : ~Skipped(start_from, keys[j]) }
    IN  IF rest = {} THEN Len(keys) + 1
        ELSE CHOOSE j \in rest : \A j2 \in rest : j <= j2

\* 'FOR rt IN relatietypes FILTER rt.short == @short LIMIT 1 RETURN rt._key'
\* The upstream relation-types are Voedt, Sturing and Bevestiging.
RelatietypeKey(c) ==
    IF c = "voedt_relaties" /\ 1 \in data["relatietypes"] THEN 1
    ELSE IF c = "sturing_relaties" /\ 2 \in data["relatietypes"] THEN 2
    ELSE IF c = "bevestiging_relaties" /\ 3 \in data["relatietypes"] THEN 3
    ELSE Null

\* The rows of assetrelaties the set-based query copies into collection c.
DerivedEdges(c) == IF RelatietypeKey(c) = Null THEN {} ELSE data["assetrelaties"]

\* ExtraFillStep.execute begins, after InitialFillStep.execute has returned.
extra_execute ==
    /\ phase = "initial"
    /\ cpc = "returned"
    /\ phase' = "extra"
    /\ cpc' = "off"
    /\ ex' = [ExOff EXCEPT !.pc = "ensure"]
    /\ UNCHANGED << params, data, xdbVars, envVars, provVars, gi, remaining,
                    failed, w, faults, crashes, histVars >>

\* "if params.get(f'fill_{resource}') is None: params.insert(...)"
extra_ensure ==
    LET r == resources_to_fill[ex.i]
    IN  /\ phase = "extra"
        /\ ex.pc = "ensure"
        /\ params' = [params EXCEPT ![r] = IF @.exists THEN @ ELSE NewDoc]
        /\ ex' = IF ex.i < Len(resources_to_fill)
                 THEN [ex EXCEPT !.i = @ + 1]
                 ELSE [ex EXCEPT !.i = 1, !.pc = "next"]
        /\ UNCHANGED << data, xdbVars, envVars, provVars, phase, ctlVars, w, faults,
                        crashes, histVars >>

\* "if params_resource and params_resource['fill']: self.fill_resource(...)"
extra_next ==
    LET r == resources_to_fill[ex.i]
        doc == params[r]
    IN  /\ phase = "extra"
        /\ ex.pc = "next"
        /\ ex.i <= Len(resources_to_fill)
        /\ ex' = IF doc.exists /\ doc.fill
                 THEN [ex EXCEPT !.start_from = doc.from,
                                 !.pc = IF r \in KeyedPasses THEN "keys"
                                        ELSE IF r \in MarkOnlyPasses
                                        THEN "mark" ELSE "truncate"]
                 ELSE [ex EXCEPT !.i = @ + 1]
        /\ UNCHANGED << params, data, xdbVars, envVars, provVars, phase, ctlVars, w,
                        faults, crashes, histVars >>

\* fill_assettypes / fill_vplankoppelingen: uuids_sorted = sorted(query)
extra_keys ==
    LET r == resources_to_fill[ex.i]
        keys == KeysOf(r)
        k == NextKey(keys, ex.start_from, 1)
    IN  /\ phase = "extra"
        /\ ex.pc = "keys"
        /\ ex' = [ex EXCEPT !.keys = keys, !.k = k,
                            !.pc = IF k > Len(keys) THEN "mark" ELSE "update"]
        /\ UNCHANGED << params, data, xdbVars, envVars, provVars, phase, ctlVars, w,
                        faults, crashes, histVars >>

\* The upstream call for the key and the updates of its documents.
extra_key_update ==
    LET r == resources_to_fill[ex.i]
        key == ex.keys[ex.k]
    IN  /\ phase = "extra"
        /\ ex.pc = "update"
        /\ flagged' = IF r = "assettypes" THEN flagged \cup {key} ELSE flagged
        /\ vplankoppelingen' = IF r = "vplankoppelingen"
                               THEN vplankoppelingen \cup {key}
                               ELSE vplankoppelingen
        /\ ex' = [ex EXCEPT !.pc = "persist"]
        /\ UNCHANGED << params, data, db_step, derived, envVars, provVars, phase,
                        ctlVars, w, faults, crashes, histVars >>

\* "UPDATE @key WITH { from: @start_from } IN params" with the key.
extra_key_persist ==
    LET r == resources_to_fill[ex.i]
        key == ex.keys[ex.k]
        k == NextKey(ex.keys, ex.start_from, ex.k + 1)
    IN  /\ phase = "extra"
        /\ ex.pc = "persist"
        /\ params[r].exists
        /\ params' = [params EXCEPT ![r] = UpdateFrom(@, key)]
        /\ ex' = [ex EXCEPT !.k = k,
                            !.pc = IF k > Len(ex.keys) THEN "mark"
                                   ELSE "update"]
        /\ UNCHANGED << data, xdbVars, envVars, provVars, phase, ctlVars, w, faults,
                        crashes, histVars >>

\* _ensure_edge_collection and truncate of the derived collection.
extra_truncate ==
    LET c == resources_to_fill[ex.i]
    IN  /\ phase = "extra"
        /\ ex.pc = "truncate"
        /\ derived' = [derived EXCEPT ![c] = {}]
        /\ ex' = [ex EXCEPT !.pc = "build"]
        /\ UNCHANGED << params, data, db_step, flagged, vplankoppelingen,
                        envVars, provVars, phase, ctlVars, w, faults, crashes,
                        histVars >>

\* The relation-type lookup and the set-based INSERT query.
extra_build ==
    LET c == resources_to_fill[ex.i]
    IN  /\ phase = "extra"
        /\ ex.pc = "build"
        /\ derived' = [derived EXCEPT ![c] = @ \cup DerivedEdges(c)]
        /\ ex' = [ex EXCEPT !.pc = "mark"]
        /\ UNCHANGED << params, data, db_step, flagged, vplankoppelingen,
                        envVars, provVars, phase, ctlVars, w, faults, crashes,
                        histVars >>

\* _mark_filled and the closing update of every pass.
extra_mark ==
    LET r == resources_to_fill[ex.i]
    IN  /\ phase = "extra"
        /\ ex.pc = "mark"
        /\ params[r].exists
        /\ params' = [params EXCEPT ![r] = UpdateFilled(@)]
        /\ ex' = [ex EXCEPT !.pc = "next", !.i = @ + 1, !.keys = << >>,
                            !.k = 1, !.start_from = Null]
        /\ UNCHANGED << data, xdbVars, envVars, provVars, phase, ctlVars, w, faults,
                        crashes, histVars >>

\* A query, an update or an upstream call of a pass raises: execute raises
\* and the exception ends the process.
extra_raises ==
    /\ phase = "extra"
    /\ ex.pc \in {"ensure", "keys", "update", "persist", "truncate", "build",
                   "mark"}
    /\ faults < MaxFaults
    /\ faults' = faults + 1
    /\ phase' = "raised"
    /\ ex' = ExOff
    /\ UNCHANGED << params, data, xdbVars, envVars, provVars, ctlVars, w, crashes,
                    histVars >>

\* The second loop of ExtraFillStep.execute is exhausted: execute returns.
extra_return ==
    /\ phase = "extra"
    /\ ex.pc = "next"
    /\ ex.i > Len(resources_to_fill)
    /\ phase' = "done"
    /\ ex' = ExOff
    /\ UNCHANGED << params, data, xdbVars, envVars, provVars, ctlVars, w,
                    faults, crashes, histVars >>

Next ==
    \/ dispatch_create_db
    \/ cdb_check
    \/ cdb_drop_graph
    \/ cdb_drop_collection
    \/ cdb_create_collection
    \/ cdb_seed
    \/ cdb_set_step
    \/ execute
    \/ fill_tables_submit
    \/ \E s \in Slots : FillStart(s)
    \/ \E s \in Slots : SeqFetch(s)
    \/ \E s \in Slots : Handle(s)
    \/ \E s \in Slots : PersistProgress(s)
    \/ \E s \in Slots : MarkFilled(s)
    \/ \E s \in Slots : TaskRaises(s)
    \/ \E s \in Slots : producer_fetch(s)
    \/ \E s \in Slots : producer_put(s)
    \/ \E s \in Slots : producer_sentinel(s)
    \/ \E s \in Slots : producer_raises(s)
    \/ \E s \in Slots : consumer_get(s)
    \/ \E s \in Slots : consumer_raises(s)
    \/ \E s \in Slots : PipelineJoin(s)
    \/ \E s \in Slots : fill_tables_collect(s)
    \/ fill_tables_backoff
    \/ fill_tables_retry
    \/ fill_tables_next_group
    \/ removed_fill_params
    \/ extra_execute
    \/ extra_ensure
    \/ extra_next
    \/ extra_keys
    \/ extra_key_update
    \/ extra_key_persist
    \/ extra_truncate
    \/ extra_build
    \/ extra_mark
    \/ extra_raises
    \/ extra_return
    \/ Crash

Spec == Init /\ [][Next]_vars

\* ------------------------------------------------------------- scheduling
\* The threads of the pool, the two threads of a pipeline and the main
\* thread are scheduled by the operating system: each of them takes its
\* next step when that step stays possible.  A call that raises because
\* the upstream or the storage failed is never required to happen; the
\* call of a handler the class does not define raises whenever it is made.
MaxGroupSize == Max(Len(Groups[1]), Len(Groups[2]))

\* The thread of the task in slot s (in pipeline mode: its consumer).
WorkerStep(s) ==
    /\ s \in Slots
    /\ \/ FillStart(s)
       \/ SeqFetch(s)
       \/ Handle(s)
       \/ PersistProgress(s)
       \/ MarkFilled(s)
       \/ consumer_get(s)
       \/ PipelineJoin(s)
       \/ (TaskRaises(s) \/ consumer_raises(s)) /\ faults' = faults

\* The producer thread of the task in slot s.
ProducerStep(s) ==
    /\ s \in Slots
    /\ \/ producer_fetch(s)
       \/ producer_put(s)
       \/ producer_sentinel(s)

\* The main thread.
ControllerStep ==
    \/ dispatch_create_db
    \/ cdb_check
    \/ cdb_drop_graph
    \/ cdb_drop_collection
    \/ cdb_create_collection
    \/ cdb_seed
    \/ cdb_set_step
    \/ execute
    \/ fill_tables_submit
    \/ \E s \in Slots : fill_tables_collect(s)
    \/ fill_tables_backoff
    \/ fill_tables_retry
    \/ fill_tables_next_group
    \/ removed_fill_params
    \/ extra_execute
    \/ extra_ensure
    \/ extra_next
    \/ extra_keys
    \/ extra_key_update
    \/ extra_key_persist
    \/ extra_truncate
    \/ extra_build
    \/ extra_mark
    \/ extra_return

Fairness ==
    /\ WF_vars(ControllerStep)
    /\ \A s \in 1 .. MaxGroupSize :
          WF_vars(WorkerStep(s)) /\ WF_vars(ProducerStep(s))

FairSpec == Init /\ [][Next]_vars /\ Fairness

\* ======================================================================
\* The provisioner and the controller loop over arbitrary databases
\* ======================================================================
\* "for i in range(10)"
RunIterations == 10

\* A database on which CreateDBStep completed, with the marker at step.
ProvisionedDatabase(step) ==
    [collections |->
        SystemCollections \cup
        { FullDeclared[i] : i \in DOMAIN FullDeclared },
     graphs |-> {},
     db_step |-> step,
     feeds |-> [k \in FeedKeys |-> DefaultFeed]]

InitialDatabases ==
    { EmptyDatabase, LegacyDatabase }
    \cup { ProvisionedDatabase(step) : step \in DBSteps \cup {NoStep} }

\* An empty upstream behind every resource.
NoUpstream ==
    [r \in Resources |->
        IF UsesCursor(r) THEN [total |-> 0, pages |-> << {} >>]
        ELSE [total |-> 0, pages |-> << >>]]

\* No fill engine has run or is running.
EnginesIdle ==
    /\ params = [r \in FillKeys |-> Absent]
    /\ data = [r \in Resources |-> {}]
    /\ flagged = {}
    /\ vplankoppelingen = {}
    /\ derived = [c \in ExtraCollections |-> {}]
    /\ ex = ExOff
    /\ up = NoUpstream
    /\ use_pipeline = FALSE
    /\ gi = 1
    /\ remaining = << >>
    /\ failed = << >>
    /\ cpc = "off"
    /\ w = << >>
    /\ faults = 0
    /\ crashes = 0
    /\ ingested = [r \in Resources |-> {}]
    /\ cursorDone = [r \in Resources |-> {}]
    /\ lastPersist = [r \in Resources |-> NoPage]
    /\ returnedOk = {}

DbInit ==
    /\ \E d \in InitialDatabases :
          /\ collections = d.collections
          /\ graphs = d.graphs
          /\ db_step = d.db_step
          /\ feeds = d.feeds
    /\ drv = DrvOff
    /\ ah = AhOff
    /\ UnitsOff
    /\ phase = "idle"
    /\ EnginesIdle

\* CreateDBStep(factory).execute() is called, whatever the marker.
create_execute ==
    /\ phase = "idle"
    /\ phase' = "create"
    /\ drv' = [DrvOff EXCEPT !.pc = "cdb_check"]
    /\ UNCHANGED << fillVars, crashes, db_step, schemaVars >>

\* DBPipelineController.run: db = self.factory.create_connection()
run ==
    /\ phase = "idle"
    /\ phase' = "run"
    /\ drv' = [DrvOff EXCEPT !.pc = "loop"]
    /\ UNCHANGED << fillVars, crashes, db_step, schemaVars >>

\* One pass of the loop head: current_step = get_db_step(db) and the
\* if / elif; a marker of a later step dispatches no engine.
run_dispatch ==
    /\ phase = "run"
    /\ drv.pc = "loop"
    /\ drv.i < RunIterations
    /\ drv' = [drv EXCEPT !.ran = "none",
                          !.pc = IF DispatchCreate(db_step) THEN "cdb_check"
                                 ELSE IF DispatchFill(db_step) THEN "fill"
                                 ELSE "stubs"]
    /\ UNCHANGED << fillVars, crashes, db_step, schemaVars, phase >>

\* get_db_step(db) on a database without params: whether params.has()
\* answers False or raises is up to the driver; when it raises, run ends.
run_get_db_step_raises ==
    /\ phase = "run"
    /\ drv.pc = "loop"
    /\ drv.i < RunIterations
    /\ ~has_collection(collections, "params")
    /\ phase' = "idle"
    /\ drv' = [DrvOff EXCEPT !.ran = "raised"]
    /\ UNCHANGED << fillVars, crashes, db_step, schemaVars >>

\* The page and the entry id get_last_feedproxy_page reports for a feed.
LastFeedPage == 7

LastFeedEntry == 9

\* _run_fill: the InitialFillStep of DBPipelineController.py moves every
\* feed marker with page == -1 to the last page of its feed.
run_fill ==
    /\ phase = "run"
    /\ drv.pc = "fill"
    /\ feeds' = [k \in FeedKeys |->
                    IF feeds[k].exists /\ feeds[k].page = -1
                    THEN [feeds[k] EXCEPT !.page = LastFeedPage,
                                          !.event_uuid = LastFeedEntry]
                    ELSE feeds[k]]
    /\ drv' = [drv EXCEPT !.pc = "stubs", !.ran = "fill"]
    /\ UNCHANGED << fillVars, crashes, db_step, graphs, collections, phase >>

\* _run_extra_fill, _run_indexes, _run_constraints, _run_syncing: "pass";
\* then the next iteration.
run_stubs ==
    /\ phase = "run"
    /\ drv.pc = "stubs"
    /\ drv' = [drv EXCEPT !.pc = "loop", !.i = @ + 1]
    /\ UNCHANGED << fillVars, crashes, db_step, schemaVars, phase >>

\* The range is exhausted: run returns.
run_return ==
    /\ phase = "run"
    /\ drv.pc = "loop"
    /\ drv.i = RunIterations
    /\ phase' = "idle"
    /\ drv' = DrvOff
    /\ UNCHANGED << fillVars, crashes, db_step, schemaVars >>

\* The process is terminated while it provisions or runs the loop.
DbCrash ==
    /\ phase \in {"create", "run"}
    /\ crashes < MaxCrashes
    /\ crashes' = crashes + 1
    /\ phase' = "idle"
    /\ drv' = DrvOff
    /\ UNCHANGED << fillVars, db_step, schemaVars >>

DbNext ==
    \/ create_execute
    \/ cdb_check
    \/ cdb_drop_graph
    \/ cdb_drop_collection
    \/ cdb_create_collection
    \/ cdb_seed
    \/ cdb_set_step
    \/ run
    \/ run_dispatch
    \/ run_get_db_step_raises
    \/ run_fill
    \/ run_stubs
    \/ run_return
    \/ DbCrash

DbSpec == DbInit /\ [][DbNext]_vars

\* ======================================================================
\* CreateDBStep.execute, interrupted and executed again
\* ======================================================================
\* The databases CreateDBStep has not provisioned yet: without params.
UninitializedDatabases == { EmptyDatabase, LegacyDatabase }

ProvisionInit ==
    /\ \E d \in UninitializedDatabases :
          /\ collections = d.collections
          /\ graphs = d.graphs
          /\ db_step = d.db_step
          /\ feeds = d.feeds
    /\ drv = DrvOff
    /\ ah = AhOff
    /\ UnitsOff
    /\ phase = "idle"
    /\ EnginesIdle

ProvisionNext ==
    \/ create_execute
    \/ cdb_check
    \/ cdb_drop_graph
    \/ cdb_drop_collection
    \/ cdb_create_collection
    \/ cdb_seed
    \/ cdb_set_step
    \/ DbCrash

ProvisionSpec == ProvisionInit /\ [][ProvisionNext]_vars

\* ======================================================================
\* The assets handler (_insert_assets) over pages of raw records
\* ======================================================================
MaxPageLen == 3         \* longest page handed to the handler
MaxBestek == 3          \* most bestek couplings on one raw asset

\* ASSET_IMPORT_CHUNK_SIZE, scaled to the pages of the model
\* (bench_fill_assets sets it from --asset-chunk).
ASSET_IMPORT_CHUNK_SIZE == 2

\* BESTEK_IMPORT_CHUNK_SIZE, twice the asset chunk as in the source.
BESTEK_IMPORT_CHUNK_SIZE == 4

\* uuid.uuid4(): the value of the call that follows n earlier calls; no two
\* calls return the same value.
uuid4(n) == n + 1

\* The number of entries of bs:Bestek.bestekkoppeling on a raw record: none,
\* one or the most.
BestekCounts == {0, 1, MaxBestek}

\* A raw record: its @id, its @type and the number of its bestek couplings.
RawAssets == [id : 1 .. 2, type : 1 .. 2, bs : BestekCounts]

AssetPages ==
    UNION { [1 .. n -> RawAssets] : n \in 1 .. MaxPageLen }

\* assettype_lookup: the uris that are keys of the lookup.
AssetTypeLookups == { {}, {1}, {1, 2} }

\* self.assettype_lookup.get(uri): the _key of the asset-type, or None.
lookup_get(lookup, uri) == IF uri \in lookup THEN 10 + uri ELSE Null

\* "if not assettype_key: unknown_type_uris += 1; continue"
IsUnknownNever(key) == FALSE

IsUnknown(key) == key = Null

\* The document appended to docs_batch for a raw record.
AssetDoc(raw, key) == [key |-> raw.id, assettype_key |-> key]

\* collection.import_bulk(batch, overwrite=False, on_duplicate="update")
import_bulk(coll, batch) ==
    LET new == { batch[i] : i \in DOMAIN batch }
        last(k) == batch[CHOOSE i \in DOMAIN batch :
                            /\ batch[i].key = k
                            /\ \A j \in DOMAIN batch :
                                  batch[j].key = k => j <= i]
    IN  { d \in coll : \A n \in new : n.key # d.key }
        \cup { last(n.key) : n \in new }

KeysIn(coll) == { d.key : d \in coll }

AssetsInit ==
    /\ \E page \in AssetPages, lookup \in AssetTypeLookups :
          ah = [AhOff EXCEPT !.pc = "loop", !.page = page, !.lookup = lookup]
    /\ collections = ProvisionedDatabase("INITIAL_FILL").collections
    /\ graphs = {}
    /\ db_step = "INITIAL_FILL"
    /\ feeds = [k \in FeedKeys |-> DefaultFeed]
    /\ drv = DrvOff
    /\ UnitsOff
    /\ phase = "idle"
    /\ EnginesIdle

\* Everything but the handler's own state.
notAhVars ==
    << params, data, db_step, flagged, vplankoppelingen, derived, ex, envVars,
       phase, ctlVars, w, faults, crashes, histVars, schemaVars, drv >>

\* "for raw in dicts": a record whose @type is not in the lookup.
assets_skip ==
    LET raw == ah.page[ah.i]
    IN  /\ ah.pc = "loop"
        /\ ah.i <= Len(ah.page)
        /\ IsUnknown(lookup_get(ah.lookup, raw.type))
        /\ ah' = [ah EXCEPT !.i = @ + 1, !.unknown_type_uris = @ + 1]
        /\ UNCHANGED notAhVars

\* "for raw in dicts": a record of a known type is enriched, its bestek
\* couplings are collected under fresh uuid4 keys and it joins docs_batch.
assets_collect ==
    LET raw == ah.page[ah.i]
        key == lookup_get(ah.lookup, raw.type)
    IN  /\ ah.pc = "loop"
        /\ ah.i <= Len(ah.page)
        /\ ~IsUnknown(key)
        /\ ah' = [ah EXCEPT
                    !.kopp_batch =
                        @ \o [j \in 1 .. raw.bs |->
                                [key |-> uuid4(ah.uuid_calls + j - 1),
                                 from |-> raw.id, to |-> j]],
                    !.uuid_calls = @ + raw.bs,
                    !.docs_batch = Append(@, AssetDoc(raw, key)),
                    !.i = @ + 1,
                    !.pc = IF Len(ah.docs_batch) + 1
                                >= ASSET_IMPORT_CHUNK_SIZE
                           THEN "flush" ELSE "loop"]
        /\ UNCHANGED notAhVars

\* flush_batches, in the loop ("flush") and after it ("last_flush").
assets_flush ==
    /\ ah.pc \in {"flush", "last_flush"}
    /\ ah' = [ah EXCEPT
                !.assets = IF ah.docs_batch # << >>
                           THEN import_bulk(@, ah.docs_batch) ELSE @,
                !.bestekkoppelingen = IF ah.kopp_batch # << >>
                                      THEN import_bulk(@, ah.kopp_batch)
                                      ELSE @,
                !.imported = @ \o ah.docs_batch,
                !.kimported = @ \o ah.kopp_batch,
                !.docs_batch = << >>,
                !.kopp_batch = << >>,
                !.pc = IF ah.pc = "flush" THEN "loop" ELSE "done"]
    /\ UNCHANGED notAhVars

\* The loop is exhausted: the closing flush_batches() is called.
assets_end ==
    /\ ah.pc = "loop"
    /\ ah.i > Len(ah.page)
    /\ ah' = [ah EXCEPT !.pc = "last_flush"]
    /\ UNCHANGED notAhVars

\* The same page is handed to the handler again (a retried page).
assets_again ==
    /\ ah.pc = "done"
    /\ ah.pass = 1
    /\ ah' = [ah EXCEPT !.pc = "loop", !.i = 1, !.pass = 2,
                        !.unknown_type_uris = 0,
                        !.imported = << >>, !.kimported = << >>,
                        !.keys1 = KeysIn(ah.assets),
                        !.kkeys1 = KeysIn(ah.bestekkoppelingen)]
    /\ UNCHANGED notAhVars

AssetsNext ==
    \/ assets_skip
    \/ assets_collect
    \/ assets_flush
    \/ assets_end
    \/ assets_again

AssetsSpec == AssetsInit /\ [][AssetsNext]_vars

\* ======================================================================
\* Key normalization (_transform_keys and the assets path) on raw records
\* ======================================================================
\* A JSON value: a scalar, a dict (its items in insertion order, each a key
\* and a value) or a list.  A key is the sequence of its characters.
Scalar == [t |-> "s", v |-> << >>]

Dict(items) == [t |-> "d", v |-> items]

List(elems) == [t |-> "l", v |-> elems]

\* The call raised instead of returning a value.
Raised == [t |-> "raise", v |-> << >>]

Item(k, x) == [k |-> k, x |-> x]

IsDict(x) == x.t = "d"

IsContainer(x) == x.t \in {"d", "l"}

\* key.find(c), 1-based; 0 when c does not occur.
Find(k, c) ==
    IF \E i \in DOMAIN k : k[i] = c
    THEN CHOOSE i \in DOMAIN k : k[i] = c /\ \A j \in 1 .. (i - 1) : k[j] # c
    ELSE 0

\* key[:colon] and key[colon + 1:]
Before(k, i) == SubSeq(k, 1, i - 1)

After(k, i) == SubSeq(k, i + 1, Len(k))

\* key.replace(".", "_")
ReplaceDots(k) == [i \in DOMAIN k |-> IF k[i] = "." THEN "_" ELSE k[i]]

\* key.startswith("@")
StartsWithAt(k) == k # << >> /\ k[1] = "@"

\* d.get(k): the position of key k in the items, 0 when absent.
DictIndex(items, k) ==
    IF \E i \in DOMAIN items : items[i].k = k
    THEN CHOOSE i \in DOMAIN items : items[i].k = k
    ELSE 0

\* d[k] = x: an existing key keeps its position.
DictSet(items, k, x) ==
    IF DictIndex(items, k) = 0 THEN Append(items, Item(k, x))
    ELSE [items EXCEPT ![DictIndex(items, k)] = Item(k, x)]

\* "ns = key[:colon]; field = key[colon + 1:]; field.replace('.', '_');
\* bucket = result.get(ns); ...; bucket[field] = value".  With replace the
\* bucket that is not a dict is replaced by a new one
\* (_normalize_asset_top_level_keys); without, the item assignment on it
\* raises (_transform_keys).
BucketSet(items, key, value, replace) ==
    LET colon == Find(key, ":")
        ns == Before(key, colon)
        field == ReplaceDots(After(key, colon))
        at == DictIndex(items, ns)
    IN  IF at = 0 \/ (replace /\ ~IsDict(items[at].x))
        THEN DictSet(items, ns, Dict(<< Item(field, value) >>))
        ELSE IF ~IsDict(items[at].x) THEN << Item(<< >>, Raised) >>
        ELSE DictSet(items, ns, Dict(DictSet(items[at].x.v, field, value)))

HasRaised(items) == \E i \in DOMAIN items : items[i].x = Raised

\* The nested branch: "clean_key = key[colon + 1:] if colon != -1 else key"
\* and the replacement of '.'.
CleanKey(key) ==
    LET colon == Find(key, ":")
    IN  ReplaceDots(IF colon # 0 THEN After(key, colon) ELSE key)

RECURSIVE process(_, _)
RECURSIVE process_items(_, _, _, _)
\* _transform_keys.process(obj, depth)
process(obj, depth) ==
    IF obj.t = "l"
    THEN List([i \in DOMAIN obj.v |-> process(obj.v[i], depth)])
    ELSE IF obj.t # "d" THEN obj
    ELSE LET result == process_items(obj.v, 1, << >>, depth)
         IN  IF HasRaised(result) THEN Raised ELSE Dict(result)

\* "for key, value in obj.items()", from item i on, into result.
process_items(items, i, result, depth) ==
    IF i > Len(items) \/ HasRaised(result) THEN result
    ELSE LET key == items[i].k
             value == process(items[i].x, depth + 1)
             next ==
                 IF depth = 0
                 THEN IF Find(key, ":") # 0
                      THEN BucketSet(result, key, value, FALSE)
                      ELSE DictSet(result, ReplaceDots(key), value)
                 ELSE DictSet(result, CleanKey(key), value)
         IN  process_items(items, i + 1, next, depth)

_transform_keys(record) == process(record, 0)

RECURSIVE _normalize_nested_keys(_)
RECURSIVE normalize_nested_items(_, _, _)
\* _normalize_nested_keys(obj), with its two fast paths.
_normalize_nested_keys(obj) ==
    IF obj.t = "l"
    THEN IF ~\E i \in DOMAIN obj.v : IsContainer(obj.v[i]) THEN obj
         ELSE List([i \in DOMAIN obj.v |-> _normalize_nested_keys(obj.v[i])])
    ELSE IF obj.t # "d" THEN obj
    ELSE LET needs_key_change ==
                 \E i \in DOMAIN obj.v :
                     Find(obj.v[i].k, ":") # 0 \/ Find(obj.v[i].k, ".") # 0
             has_child_containers ==
                 \E i \in DOMAIN obj.v : IsContainer(obj.v[i].x)
         IN  IF ~needs_key_change /\ ~has_child_containers THEN obj
             ELSE Dict(normalize_nested_items(obj.v, 1, << >>))

normalize_nested_items(items, i, out) ==
    IF i > Len(items) THEN out
    ELSE normalize_nested_items(
             items, i + 1,
             DictSet(out, CleanKey(items[i].k),
                     _normalize_nested_keys(items[i].x)))

RECURSIVE normalize_top_items(_, _, _)
\* _normalize_asset_top_level_keys: "for k, v in raw.items()".
normalize_top_items(items, i, out) ==
    IF i > Len(items) THEN out
    ELSE LET k == items[i].k
             v == items[i].x
             next ==
                 IF k = << >> \/ StartsWithAt(k) THEN DictSet(out, k, v)
                 ELSE IF Find(k, ":") # 0 THEN BucketSet(out, k, v, TRUE)
                 ELSE DictSet(out, ReplaceDots(k), v)
         IN  normalize_top_items(items, i + 1, next)

_normalize_asset_top_level_keys(raw) ==
    Dict(normalize_top_items(raw.v, 1, << >>))

\* _insert_assets, lines 589-599: the top-level pass, then
\* _normalize_nested_keys on every container value whose key does not start
\* with "@".
normalize_asset(raw) ==
    LET obj == _normalize_asset_top_level_keys(raw)
    IN  Dict([i \in DOMAIN obj.v |->
                IF ~StartsWithAt(obj.v[i].k) /\ IsContainer(obj.v[i].x)
                THEN Item(obj.v[i].k, _normalize_nested_keys(obj.v[i].x))
                ELSE obj.v[i]])

\* The keys of the raw records: plain, namespaced, dotted, with two colons,
\* with a dotted namespace, and reserved.
RawKeys ==
    { << "n" >>, << "f" >>, << "n", ":", "f" >>, << "f", ".", "g" >>,
      << "n", ":", "f", ".", "g" >>, << "n", ":", "f", ":", "g" >>,
      << "n", ".", "m", ":", "f" >>, << "@", "i" >> }

\* The values under a top-level key: a scalar, a dict, a list of dicts, a
\* list of scalars, a dict in a dict.
RawValues ==
    { Scalar, List(<< Scalar >>) }
    \cup { Dict(<< Item(k, Scalar) >>) : k \in RawKeys }
    \cup { List(<< Dict(<< Item(k, Scalar) >>) >>) : k \in RawKeys }
    \cup { Dict(<< Item(<< "n" >>, Dict(<< Item(k, Scalar) >>)) >>) :
             k \in RawKeys }

\* Two different top-level keys.
RawKeyPairs == { p \in RawKeys \X RawKeys : p[1] # p[2] }

\* Raw records of one and of two top-level keys.
RawRecords ==
    { Dict(<< Item(k, x) >>) : k \in RawKeys, x \in RawValues }
    \cup { Dict(<< Item(p[1], x), Item(p[2], Scalar) >>) :
             p \in RawKeyPairs, x \in RawValues }
    \cup { Dict(<< Item(p[1], Scalar), Item(p[2], x) >>) :
             p \in RawKeyPairs, x \in RawValues }

\* Everything else is at rest while one function is applied on its own.
PipelineIdle ==
    /\ collections = ProvisionedDatabase("INITIAL_FILL").collections
    /\ graphs = {}
    /\ db_step = "INITIAL_FILL"
    /\ feeds = [k \in FeedKeys |-> DefaultFeed]
    /\ drv = DrvOff
    /\ ah = AhOff
    /\ phase = "idle"
    /\ EnginesIdle

NormInit ==
    /\ \E raw \in RawRecords, path \in {"transform", "assets"} :
          nk = [pc |-> "raw", path |-> path, raw |-> raw, out |-> << >>]
    /\ pg = PgOff
    /\ rq = RqOff
    /\ dv = DvOff
    /\ PipelineIdle

\* Everything but the state of the normalization.
notNkVars ==
    << params, data, db_step, flagged, vplankoppelingen, derived, ex, up,
       use_pipeline, pg, rq, dv, phase, ctlVars, w, faults, crashes,
       histVars, provVars >>

\* The value the next pass is applied to: the raw record, then the result.
NormInput == IF nk.out = << >> THEN nk.raw ELSE nk.out[Len(nk.out)]

\* _transform_keys is applied, to the raw record and then to its result.
transform_keys ==
    /\ nk.pc = "raw"
    /\ nk.path = "transform"
    /\ Len(nk.out) < 2
    /\ NormInput # Raised
    /\ nk' = [nk EXCEPT !.out = Append(@, _transform_keys(NormInput))]
    /\ UNCHANGED notNkVars

\* The assets path is applied, to the raw record and then to its result.
normalize_asset_keys ==
    /\ nk.pc = "raw"
    /\ nk.path = "assets"
    /\ Len(nk.out) < 2
    /\ nk' = [nk EXCEPT !.out = Append(@, normalize_asset(NormInput))]
    /\ UNCHANGED notNkVars

NormNext == transform_keys \/ normalize_asset_keys

NormSpec == NormInit /\ [][NormNext]_vars

\* ======================================================================
\* One derived-edge pass (ExtraFillStep) over arbitrary collections
\* ======================================================================
\* The four passes: params key, edge collection, relatietype.short.
DerivedPassArgs ==
    { [params_key |-> "fill_voedt_relaties",
       edge_collection |-> "voedt_relaties", short |-> "Voedt"],
      [params_key |-> "fill_sturing_relaties",
       edge_collection |-> "sturing_relaties", short |-> "Sturing"],
      [params_key |-> "fill_bevestiging_relaties",
       edge_collection |-> "bevestiging_relaties", short |-> "Bevestiging"],
      [params_key |-> "fill_hoortbij_relaties",
       edge_collection |-> "hoortbij_relaties", short |-> "HoortBij"] }

\* The _key of the relatietype of each short name, and of one other type.
TypeKeyOf(short) ==
    CASE short = "Voedt" -> 1
      [] short = "Sturing" -> 2
      [] short = "Bevestiging" -> 3
      [] short = "HoortBij" -> 4
      [] OTHER -> 5

\* The endpoints of the rows of assetrelaties.
AssetIds == { "assets/a1", "assets/a2" }

\* DOCUMENT(id) is null, or an asset that is or is not active.
AssetStates == { "missing", "inactive", "active" }

\* The rows of assetrelaties: of the type of the pass or of the other one,
\* active or not.
RelatieRows(short) ==
    { [_key |-> 1, _from |-> "assets/a1", _to |-> "assets/a2",
       relatietype_key |-> TypeKeyOf(short), AIMDBStatus_isActief |-> TRUE],
      [_key |-> 2, _from |-> "assets/a2", _to |-> "assets/a1",
       relatietype_key |-> TypeKeyOf(short), AIMDBStatus_isActief |-> TRUE],
      [_key |-> 3, _from |-> "assets/a1", _to |-> "assets/a2",
       relatietype_key |-> TypeKeyOf(short), AIMDBStatus_isActief |-> FALSE],
      [_key |-> 4, _from |-> "assets/a1", _to |-> "assets/a2",
       relatietype_key |-> TypeKeyOf("Other"), AIMDBStatus_isActief |-> TRUE] }

\* e._id of a row of assetrelaties
EdgeId(e) == << "assetrelaties", e._key >>

\* The document the INSERT of the build query writes for row e.
DerivedEdge(e) ==
    [_from |-> e._from, _to |-> e._to,
     source_edge_id |-> EdgeId(e), source_edge_key |-> e._key]

\* An edge left in the derived collection by an earlier run.
StaleEdge ==
    [_from |-> "assets/a2", _to |-> "assets/a2",
     source_edge_id |-> << "assetrelaties", 0 >>, source_edge_key |-> 0]

\* db.collection(edge_collection).truncate()
truncateKeep(coll) == coll

truncate(coll) == {}

\* "FOR rt IN relatietypes FILTER rt.short == @short LIMIT 1 RETURN rt._key"
\* and next(iter(cursor), None)
rt_key_of(relatietypes, short) ==
    IF \E rt \in relatietypes : rt.short = short
    THEN (CHOOSE rt \in relatietypes : rt.short = short)._key
    ELSE Null

\* The rows the build query inserts an edge for.
BuildQuery(d) ==
    LET rt_key == rt_key_of(d.relatietypes, d.args.short)
    IN  { DerivedEdge(e) :
            e \in { e \in d.assetrelaties :
                      /\ e.relatietype_key = rt_key
                      /\ e.AIMDBStatus_isActief = TRUE
                      /\ d.assets[e._from] # "missing"
                      /\ d.assets[e._to] # "missing"
                      /\ d.assets[e._from] = "active"
                      /\ d.assets[e._to] = "active" } }

\* fill_voedt_relaties hands its build query the bind variable voedt_key,
\* which the query text does not declare; _fill_derived_edges binds @short,
\* which its query uses.
BindsUndeclared(args) == args.edge_collection = "voedt_relaties"

DerivedInit ==
    /\ \E args \in DerivedPassArgs, found \in BOOLEAN,
          assets \in [AssetIds -> AssetStates],
          stale \in SUBSET {StaleEdge} :
          \E rows \in SUBSET RelatieRows(args.short) :
             dv = [pc |-> "truncate",
                   args |-> args,
                   relatietypes |->
                       {[_key |-> TypeKeyOf("Other"), short |-> "Other"]}
                       \cup (IF found
                             THEN {[_key |-> TypeKeyOf(args.short),
                                    short |-> args.short]}
                             ELSE {}),
                   assets |-> assets,
                   assetrelaties |-> rows,
                   before |-> stale,
                   edges |-> stale,
                   rt_key |-> Null,
                   marker |-> [fill |-> TRUE, from |-> Null]]
    /\ nk = NkOff
    /\ pg = PgOff
    /\ rq = RqOff
    /\ PipelineIdle

\* Everything but the state of the derived-edge pass.
notDvVars ==
    << params, data, db_step, flagged, vplankoppelingen, derived, ex, up,
       use_pipeline, nk, pg, rq, phase, ctlVars, w, faults, crashes,
       histVars, provVars >>

\* _ensure_edge_collection and truncate
derived_truncate ==
    /\ dv.pc = "truncate"
    /\ dv' = [dv EXCEPT !.pc = "resolve", !.edges = truncate(@)]
    /\ UNCHANGED notDvVars

\* The lookup of the relatietype key and "if rt_key is None".
derived_resolve ==
    LET rt_key == rt_key_of(dv.relatietypes, dv.args.short)
    IN  /\ dv.pc = "resolve"
        /\ dv' = [dv EXCEPT !.rt_key = rt_key,
                            !.pc = IF rt_key = Null THEN "mark" ELSE "build"]
        /\ UNCHANGED notDvVars

\* The set-based build query is executed.
derived_build ==
    /\ dv.pc = "build"
    /\ dv' = [dv EXCEPT !.pc = "mark", !.edges = @ \cup BuildQuery(dv)]
    /\ UNCHANGED notDvVars

\* The server rejects the build query for the bind variable it does not
\* declare: the pass raises, after the truncate and before _mark_filled.
derived_build_rejected ==
    /\ dv.pc = "build"
    /\ BindsUndeclared(dv.args)
    /\ dv' = [dv EXCEPT !.pc = "raised"]
    /\ UNCHANGED notDvVars

\* _mark_filled, and the pass returns.
derived_mark_filled ==
    /\ dv.pc = "mark"
    /\ dv' = [dv EXCEPT !.pc = "done",
                        !.marker = [fill |-> FALSE, from |-> Null]]
    /\ UNCHANGED notDvVars

DerivedNext ==
    \/ derived_truncate
    \/ derived_resolve
    \/ derived_build
    \/ derived_build_rejected
    \/ derived_mark_filled

DerivedSpec == DerivedInit /\ [][DerivedNext]_vars

\* ======================================================================
\* The paging generators of EMInfraClient and EMSONClient on their own
\* ======================================================================
\* get_resource_page, get_identity_resource_page
OffsetGenerators == { "get_resource_page", "get_identity_resource_page" }

\* get_resource_by_cursor of EMSONClient and of EMInfraClient
CursorGenerators ==
    { "EMSONClient.get_resource_by_cursor",
      "EMInfraClient.get_resource_by_cursor" }

\* The json of the response to a request at offset from.
OffsetResponse(total, from) ==
    [from |-> from, size |-> OffsetSize(total, from), totalCount |-> total,
     data |-> OffsetData(total, from)]

\* The response to a search with fromCursor c: its em-paging-next-cursor
\* header (Null when absent) and its @graph.
CursorResponse(pages, c) ==
    [next_cursor |-> CursorNext(pages, PageOf(c)),
     graph |-> CursorData(pages, PageOf(c))]

\* "start_from = json_dict['from'] + json_dict['size']"
NextOffset(json_dict) == json_dict.from + json_dict.size

\* "if start_from >= json_dict['totalCount']"
IsLastPageStrict(start_from, json_dict) == start_from > json_dict.totalCount

IsLastPage(start_from, json_dict) == start_from >= json_dict.totalCount

\* "query.fromCursor = cursor"
NextFromCursorKeep(fromCursor, cursor) == fromCursor

NextFromCursor(fromCursor, cursor) == cursor

\* The starting offsets and cursors handed to the generators.
StartOffsets == {Null} \cup (0 .. (MaxTotal + 1))

StartCursors(pages) == {Null} \cup (1 .. (Len(pages) - 1))

PagingInit ==
    /\ \/ \E g \in OffsetGenerators, total \in 0 .. MaxTotal,
             start \in StartOffsets :
             pg = [pc |-> "call", gen |-> g,
                   upstream |-> [total |-> total, pages |-> << >>],
                   start |-> start, cursor |-> start,
                   requests |-> << >>, responses |-> << >>,
                   yields |-> << >>]
       \/ \E g \in CursorGenerators, u \in CursorUpstreams :
             \E start \in StartCursors(u.pages) :
                pg = [pc |-> "call", gen |-> g, upstream |-> u,
                      start |-> start, cursor |-> start,
                      requests |-> << >>, responses |-> << >>,
                      yields |-> << >>]
    /\ nk = NkOff
    /\ rq = RqOff
    /\ dv = DvOff
    /\ PipelineIdle

\* Everything but the state of the generator.
notPgVars ==
    << params, data, db_step, flagged, vplankoppelingen, derived, ex, up,
       use_pipeline, nk, rq, dv, phase, ctlVars, w, faults, crashes,
       histVars, provVars >>

\* One next() on an offset generator: the request at start_from, the new
\* start_from, and the yield of the last or of a further page.
get_resource_page(g) ==
    LET start_from == IF pg.pc = "call" THEN PageOf(pg.cursor) ELSE pg.cursor
        json_dict == OffsetResponse(pg.upstream.total, start_from)
        next == NextOffset(json_dict)
        last == IsLastPage(next, json_dict)
    IN  /\ pg.gen = g
        /\ pg.pc \in {"call", "loop"}
        /\ pg' = [pg EXCEPT
                    !.requests = Append(@, start_from),
                    !.responses = Append(@, json_dict),
                    !.cursor = next,
                    !.yields =
                        Append(@, [cursor |-> IF last THEN Null ELSE next,
                                   data |-> json_dict.data]),
                    !.pc = IF last THEN "done" ELSE "loop"]
        /\ UNCHANGED notPgVars

\* One next() on a cursor generator: the search with query.fromCursor, the
\* header of the response, the yield, and the break or the new fromCursor.
get_resource_by_cursor(g) ==
    LET response == CursorResponse(pg.upstream.pages, pg.cursor)
        cursor == response.next_cursor
    IN  /\ pg.gen = g
        /\ pg.pc \in {"call", "loop"}
        /\ pg' = [pg EXCEPT
                    !.requests = Append(@, pg.cursor),
                    !.responses = Append(@, response),
                    !.yields =
                        Append(@, [cursor |-> cursor,
                                   data |-> response.graph]),
                    !.cursor = NextFromCursor(pg.cursor, cursor),
                    !.pc = IF cursor = Null THEN "done" ELSE "loop"]
        /\ UNCHANGED notPgVars

\* The requester raises, or the search answers with a status other than
\* 200 ("raise ProcessLookupError"): the generator ends without a yield.
generator_raises ==
    /\ pg.pc \in {"call", "loop"}
    /\ pg' = [pg EXCEPT
                !.requests =
                    Append(@, IF pg.gen \in OffsetGenerators /\ pg.pc = "call"
                              THEN PageOf(pg.cursor) ELSE pg.cursor),
                !.pc = "raised"]
    /\ UNCHANGED notPgVars

PagingNext ==
    \/ \E g \in OffsetGenerators : get_resource_page(g)
    \/ \E g \in CursorGenerators : get_resource_by_cursor(g)
    \/ generator_raises

PagingSpec == PagingInit /\ [][PagingNext]_vars

\* ======================================================================
\* AbstractRequester: construction and one request with retries
\* ======================================================================
\* The status codes of the responses: the ends of the 1xx, 2xx and 3xx
\* ranges, and codes inside 2xx, 4xx and 5xx.
StatusCodes == { 100, 199, 200, 204, 299, 300, 404, 500 }

RECURSIVE FirstDigit(_)
\* str(n)[0]
FirstDigit(n) == IF n < 10 THEN n ELSE FirstDigit(n \div 10)

\* str(response.status_code).startswith('2')
startswith2Only200(status_code) == status_code = 200

startswith2(status_code) == FirstDigit(status_code) = 2

RequesterInit ==
    /\ \E retries \in -1 .. MaxRetries :
          rq = [pc |-> "new", retries |-> retries, attempts |-> << >>,
                response |-> Null]
    /\ nk = NkOff
    /\ pg = PgOff
    /\ dv = DvOff
    /\ PipelineIdle

\* Everything but the state of the requester.
notRqVars ==
    << params, data, db_step, flagged, vplankoppelingen, derived, ex, up,
       use_pipeline, nk, pg, dv, phase, ctlVars, w, faults, crashes,
       histVars, provVars >>

\* AbstractRequester.__init__: "if retries < 1: raise ValueError"
requester_init ==
    /\ rq.pc = "new"
    /\ rq' = [rq EXCEPT !.pc = IF rq.retries < 1 THEN "ValueError"
                               ELSE "request"]
    /\ UNCHANGED notRqVars

\* One iteration of "for _ in range(self.retries)": the call of the Session
\* method, the return of a 2xx response, and the RuntimeError behind the
\* last iteration.
_request_with_retries ==
    /\ rq.pc = "request"
    /\ Len(rq.attempts) < rq.retries
    /\ \E status_code \in StatusCodes :
          rq' = [rq EXCEPT
                   !.attempts = Append(@, status_code),
                   !.response =
                       IF startswith2(status_code) THEN status_code ELSE @,
                   !.pc = IF startswith2(status_code) THEN "returned"
                          ELSE IF Len(rq.attempts) + 1 = rq.retries
                          THEN "RuntimeError"
                          ELSE "request"]
    /\ UNCHANGED notRqVars

\* The Session method raises (no response): the exception leaves
\* _request_with_retries, which catches nothing.
session_method_raises ==
    /\ rq.pc = "request"
    /\ Len(rq.attempts) < rq.retries
    /\ rq' = [rq EXCEPT !.pc = "raised"]
    /\ UNCHANGED notRqVars

RequesterNext ==
    \/ requester_init
    \/ _request_with_retries
    \/ session_method_raises

RequesterSpec == RequesterInit /\ [][RequesterNext]_vars

\* ======================================================================
\* The choice of the upstream generator (_fill_resource)
\* ======================================================================
\* Enums.ResourceEnum
ResourceEnum ==
    { "agents", "bestekken", "toezichtgroepen", "identiteiten",
      "relatietypes", "assettypes", "beheerders", "betrokkenerelaties",
      "assetrelaties", "assets", "controlefiches" }

\* The keys of colorama_table: every resource but controlefiches.
colorama_table == ResourceEnum \ { "controlefiches" }

\* "if resource in {toezichtgroepen, identiteiten}"
IdentityResources == { "toezichtgroepen", "identiteiten" }

\* No expansion_strings are handed to the generator.
NoExpansion == << >>

\* A call of a generator: the client, its method, the resource of the url,
\* the start, the page size and the expansions.
GeneratorCall(client, method, resource, start, page_size, expansions) ==
    [client |-> client, method |-> method, resource |-> resource,
     start |-> start, page_size |-> page_size, expansions |-> expansions]

\* _select_eminfra_generator(resource, start_from, page_size)
_select_eminfra_generator(resource, sf, page_size) ==
    IF resource \in EmInfraCursorResources
    THEN GeneratorCall("eminfra_client", "get_resource_by_cursor", resource,
                       sf, page_size, << "contactInfo" >>)
    ELSE IF resource \in IdentityResources
    THEN GeneratorCall("eminfra_client", "get_identity_resource_page",
                       resource, sf, page_size, NoExpansion)
    ELSE IF resource = "bestekken"
    THEN GeneratorCall("eminfra_client", "get_resource_page", "bestekrefs",
                       sf, page_size, NoExpansion)
    ELSE GeneratorCall("eminfra_client", "get_resource_page", resource,
                       sf, page_size, NoExpansion)

\* The values of default_page_size.
PageSizes == 1 .. PageSize

SelectInit ==
    /\ \E resource \in ResourceEnum, start \in StartOffsets,
          page_size \in PageSizes :
          pg = [pc |-> "fill_resource", resource |-> resource,
                start |-> start, page_size |-> page_size,
                call |-> << >>]
    /\ nk = NkOff
    /\ rq = RqOff
    /\ dv = DvOff
    /\ PipelineIdle

\* _fill_resource on a resource of the emson set: _fill_resource_using_emson
\* creates the cursor generator of the emson client.
fill_resource_using_emson ==
    /\ pg.pc = "fill_resource"
    /\ UsesEmson(pg.resource)
    /\ pg.resource \in colorama_table
    /\ pg' = [pg EXCEPT
                !.pc = "generator",
                !.call = GeneratorCall("emson_client",
                                       "get_resource_by_cursor", pg.resource,
                                       pg.start, pg.page_size, NoExpansion)]
    /\ UNCHANGED notPgVars

\* _fill_resource on any other resource: _fill_resource_using_em_infra asks
\* _select_eminfra_generator.
fill_resource_using_em_infra ==
    /\ pg.pc = "fill_resource"
    /\ ~UsesEmson(pg.resource)
    /\ pg.resource \in colorama_table
    /\ pg' = [pg EXCEPT
                !.pc = "generator",
                !.call = _select_eminfra_generator(pg.resource, pg.start,
                                                   pg.page_size)]
    /\ UNCHANGED notPgVars

\* "color = colorama_table[resource]" raises KeyError, before any generator
\* is created.
fill_resource_key_error ==
    /\ pg.pc = "fill_resource"
    /\ pg.resource \notin colorama_table
    /\ pg' = [pg EXCEPT !.pc = "KeyError"]
    /\ UNCHANGED notPgVars

SelectNext ==
    \/ fill_resource_using_emson
    \/ fill_resource_using_em_infra
    \/ fill_resource_key_error

SelectSpec == SelectInit /\ [][SelectNext]_vars

\* ======================================================================
\* The offset generators against an upstream of unpredictable page sizes
\* ======================================================================
MaxRequests == 4        \* requests of one generator that are followed

\* The sizes the upstream may answer a request at offset from with: at most
\* the page size, at most what is left, possibly 0.
ResponseSizes(total, from) == 0 .. OffsetSize(total, from)

UnevenInit ==
    /\ \E g \in OffsetGenerators, total \in 0 .. MaxTotal,
          start \in StartOffsets :
          pg = [pc |-> "call", gen |-> g,
                upstream |-> [total |-> total, pages |-> << >>],
                start |-> start, cursor |-> start,
                requests |-> << >>, responses |-> << >>,
                yields |-> << >>]
    /\ nk = NkOff
    /\ rq = RqOff
    /\ dv = DvOff
    /\ PipelineIdle

\* One next() on an offset generator whose upstream answers with a page of
\* some size.
get_resource_page_sized(g) ==
    LET start_from == IF pg.pc = "call" THEN PageOf(pg.cursor) ELSE pg.cursor
    IN  /\ pg.gen = g
        /\ pg.pc \in {"call", "loop"}
        /\ Len(pg.requests) < MaxRequests
        /\ \E size \in ResponseSizes(pg.upstream.total, start_from) :
              LET json_dict == [from |-> start_from, size |-> size,
                                totalCount |-> pg.upstream.total,
                                data |-> (start_from + 1) ..
                                             (start_from + size)]
                  next == NextOffset(json_dict)
                  last == IsLastPage(next, json_dict)
              IN  pg' = [pg EXCEPT
                           !.requests = Append(@, start_from),
                           !.responses = Append(@, json_dict),
                           !.cursor = next,
                           !.yields =
                               Append(@, [cursor |-> IF last THEN Null
                                                     ELSE next,
                                          data |-> json_dict.data]),
                           !.pc = IF last THEN "done" ELSE "loop"]
        /\ UNCHANGED notPgVars

UnevenNext == \E g \in OffsetGenerators : get_resource_page_sized(g)

UnevenSpec == UnevenInit /\ [][UnevenNext]_vars

\* ======================================================================
\* ExtraFillStep.execute on a filled database, terminated and called again
\* ======================================================================
\* The keys of assettypes and of assets the initial fill left behind.
FilledKeys == SUBSET (1 .. 3)

\* The database when InitialFillStep.execute has returned: the collections
\* are filled and no fill_* document is left.
ExtraInit ==
    /\ \E types \in FilledKeys, assets \in FilledKeys,
          rts \in {{}, {1, 2, 3}}, rels \in {{}, {1}} :
          data = [r \in Resources |->
                    IF r = "assettypes" THEN types
                    ELSE IF r = "assets" THEN assets
                    ELSE IF r = "relatietypes" THEN rts ELSE rels]
    /\ params = [r \in FillKeys |-> Absent]
    /\ flagged = {}
    /\ vplankoppelingen = {}
    /\ derived = [c \in ExtraCollections |-> {}]
    /\ ex = ExOff
    /\ up = NoUpstream
    /\ use_pipeline = FALSE
    /\ gi = 1
    /\ remaining = << >>
    /\ failed = << >>
    /\ cpc = "returned"
    /\ w = << >>
    /\ faults = 0
    /\ crashes = 0
    /\ ingested = [r \in Resources |-> {}]
    /\ cursorDone = [r \in Resources |-> {}]
    /\ lastPersist = [r \in Resources |-> NoPage]
    /\ returnedOk = {}
    /\ collections = ProvisionedDatabase("INITIAL_FILL").collections
    /\ graphs = {}
    /\ db_step = "INITIAL_FILL"
    /\ feeds = [k \in FeedKeys |-> DefaultFeed]
    /\ drv = DrvOff
    /\ ah = AhOff
    /\ UnitsOff
    /\ phase = "initial"

\* ExtraFillStep.execute is called again on the database a terminated or
\* failed run left behind.
extra_execute_again ==
    /\ phase \in {"idle", "raised"}
    /\ phase' = "extra"
    /\ cpc' = "off"
    /\ ex' = [ExOff EXCEPT !.pc = "ensure"]
    /\ UNCHANGED << params, data, xdbVars, envVars, provVars, gi, remaining,
                    failed, w, faults, crashes, histVars >>

ExtraNext ==
    \/ extra_execute
    \/ extra_ensure
    \/ extra_next
    \/ extra_keys
    \/ extra_key_update
    \/ extra_key_persist
    \/ extra_truncate
    \/ extra_build
    \/ extra_mark
    \/ extra_raises
    \/ extra_return
    \/ Crash
    \/ extra_execute_again

ExtraSpec == ExtraInit /\ [][ExtraNext]_vars

\* ======================================================================
\* The WKT of an asset (_extract_wkt_from_obj) after key normalization
\* ======================================================================
\* A string scalar, as the sequence of its parts; "" is Str(<< >>).
Str(s) == [t |-> "s", v |-> s]

None == [t |-> "none", v |-> << >>]

\* bool(x): None, "", {} and [] are false.
Truthy(x) == x.v # << >>

\* "k in d" and d.get(k)
Has(d, k) == d.t = "d" /\ DictIndex(d.v, k) # 0

Get(d, k) == IF Has(d, k) THEN d.v[DictIndex(d.v, k)].x ELSE None

\* f"POINT Z ({coords[p + '.xcoordinaat']} {coords[p + '.ycoordinaat']}
\* {coords[p + '.zcoordinaat']})"; a missing key raises KeyError.
PointZ(coords, p) ==
    LET x == << p, ".", "xcoordinaat" >>
        y == << p, ".", "ycoordinaat" >>
        z == << p, ".", "zcoordinaat" >>
    IN  IF Has(coords, x) /\ Has(coords, y) /\ Has(coords, z)
        THEN Str(<< "POINT Z (" >> \o Get(coords, x).v \o << " " >>
                 \o Get(coords, y).v \o << " " >> \o Get(coords, z).v
                 \o << ")" >>)
        ELSE Raised

\* The location-based entries of _extract_wkt_from_obj.
extract_wkt_from_loc(loc) ==
    LET val == Get(loc, << "Locatie", "_", "geometrie" >>)
        pl == Get(loc, << "Locatie", "_", "puntlocatie" >>)
        geom_container == Get(pl, << "3Dpunt", "_", "puntgeometrie" >>)
    IN  IF Truthy(val) THEN val
        ELSE IF ~(Truthy(pl) /\ Truthy(geom_container)) THEN None
        ELSE IF Has(geom_container, << "DtcCoord", ".", "lambert72" >>)
        THEN PointZ(Get(geom_container, << "DtcCoord", ".", "lambert72" >>),
                    "DtcCoordLambert72")
        ELSE IF Has(geom_container, << "DtcCoord", ".", "lambert2008" >>)
        THEN PointZ(Get(geom_container, << "DtcCoord", ".", "lambert2008" >>),
                    "DtcCoordLambert2008")
        ELSE None

_extract_wkt_from_obj(obj) ==
    LET log == Get(Get(obj, << "geo" >>), << "Geometrie", "_", "log" >>)
        geometrie_dict ==
            IF Truthy(log) THEN Get(log.v[1], << "DtcLog", "_", "geometrie" >>)
            ELSE None
    IN  IF Has(obj, << "geo" >>) /\ Truthy(log) /\ Truthy(geometrie_dict)
        THEN geometrie_dict.v[1].x
        ELSE IF Has(obj, << "loc" >>)
        THEN extract_wkt_from_loc(Get(obj, << "loc" >>))
        ELSE None

\* The raw geo:Geometrie.log of an asset: absent, an empty list, or a list
\* whose first entry has no, an empty or a filled DtcLog.geometrie.
RawGeo ==
    LET key == << "geo", ":", "Geometrie", ".", "log" >>
        inner == << "DtcLog", ".", "geometrie" >>
        punt == Item(<< "DtcGeometrie", ".", "punt" >>, Str(<< "POINT (1 2)" >>))
        lijn == Item(<< "DtcGeometrie", ".", "lijn" >>,
                     Str(<< "LINESTRING (1 2, 3 4)" >>))
        leeg == Item(<< "DtcGeometrie", ".", "punt" >>, Str(<< >>))
    IN  { << >>,
          << Item(key, List(<< >>)) >>,
          << Item(key, List(<< Dict(<< >>) >>)) >> }
        \cup { << Item(key, List(<< Dict(<< Item(inner, Dict(d)) >>) >>)) >> :
                 d \in { << >>, << leeg >>, << punt >>, << punt, lijn >> } }

\* One coordinate of the upstream: DtcCoord.lambert72 or DtcCoord.lambert2008.
RawCoord(name, p, x, y, z) ==
    Item(<< "DtcCoord", ".", name >>,
         Dict(<< Item(<< p, ".", "xcoordinaat" >>, Str(<< x >>)),
                 Item(<< p, ".", "ycoordinaat" >>, Str(<< y >>)),
                 Item(<< p, ".", "zcoordinaat" >>, Str(<< z >>)) >>))

\* The raw loc:Locatie.geometrie and loc:Locatie.puntlocatie of an asset.
RawLoc ==
    LET gkey == << "loc", ":", "Locatie", ".", "geometrie" >>
        pkey == << "loc", ":", "Locatie", ".", "puntlocatie" >>
        ckey == << "3Dpunt", ".", "puntgeometrie" >>
        c72 == RawCoord("lambert72", "DtcCoordLambert72", "1", "2", "3")
        c2008 == RawCoord("lambert2008", "DtcCoordLambert2008", "4", "5", "6")
        other == Item(<< "DtcCoord", ".", "etrs89" >>, Dict(<< >>))
        geometries ==
            { << >>, << Item(gkey, Str(<< >>)) >>,
              << Item(gkey, Str(<< "POINT (7 8)" >>)) >> }
        puntlocaties ==
            { << >>, << Item(pkey, Str(<< >>)) >>, << Item(pkey, Dict(<< >>)) >> }
            \cup { << Item(pkey, Dict(<< Item(ckey, Dict(c)) >>)) >> :
                     c \in { << >>, << c72 >>, << c2008 >>, << c72, c2008 >>,
                             << other >> } }
    IN  { g \o p : g \in geometries, p \in puntlocaties }

RawGeoAssets ==
    { Dict(<< Item(<< "@", "id" >>, Str(<< "a" >>)) >> \o g \o l) :
        g \in RawGeo, l \in RawLoc }

WktInit ==
    /\ \E raw \in RawGeoAssets :
          nk = [pc |-> "asset", raw |-> raw, obj |-> None, wkt |-> None]
    /\ pg = PgOff
    /\ rq = RqOff
    /\ dv = DvOff
    /\ PipelineIdle

\* _insert_assets, lines 589-599: the keys of the raw record are normalized.
insert_assets_normalize ==
    /\ nk.pc = "asset"
    /\ nk' = [nk EXCEPT !.pc = "normalized", !.obj = normalize_asset(nk.raw)]
    /\ UNCHANGED notNkVars

\* _enrich_geometry: wkt_string = self._extract_wkt_from_obj(obj)
enrich_geometry ==
    /\ nk.pc = "normalized"
    /\ nk' = [nk EXCEPT !.pc = "wkt", !.wkt = _extract_wkt_from_obj(nk.obj)]
    /\ UNCHANGED notNkVars

WktNext == insert_assets_normalize \/ enrich_geometry

WktSpec == WktInit /\ [][WktNext]_vars

\* ======================================================================
\* Properties
\* ======================================================================
IsPrefix(a, b) == Len(a) <= Len(b) /\ \A i \in 1 .. Len(a) : a[i] = b[i]

\* The loop of the task in slot s (in pipeline mode: its consumer) took a
\* step in this transition.
Moved(s) == s \in DOMAIN w' /\ w'[s].pc # w[s].pc /\ w'[s].res = w[s].res

\* C1: whenever fill_resource(r) has returned without raising, in any fill
\* mode, the params document fill_<r> has fill = false and from = null.
C1_ReturnedMeansFilled ==
    \A s \in Slots :
        w[s].pc = "returned" =>
            /\ params[w[s].res].exists
            /\ params[w[s].res].fill = FALSE
            /\ params[w[s].res].from = Null

\* A fill that went through at least two pages has returned cleanly.
C1_Witness ==
    \E s \in Slots : w[s].pc = "returned" /\ Len(w[s].froms) >= 3

\* C2: the cursor of a page is persisted in fill_<r>.from only after the
\* handler call for that page has returned: whenever the last from-update
\* of r came from page p, every record the handler imports for p is stored.
C2_WriteBeforeCursor ==
    \A r \in Resources :
        lastPersist[r] # NoPage =>
            Imported(data, r, YieldItems(r, lastPersist[r])) \subseteq data[r]

\* The cursor of a non-empty, non-final page is the persisted from.
C2_Witness ==
    \E r \in Resources :
        /\ lastPersist[r] # NoPage
        /\ Imported(data, r, YieldItems(r, lastPersist[r])) # {}
        /\ params[r].exists
        /\ params[r].from = YieldCursor(r, lastPersist[r])
        /\ params[r].from # Null

\* C3: after a process termination during fill_resource(r), the next fill
\* starts at the persisted from, and a page is handed to the handler a
\* second time only if its cursor update had not completed.
C3_OnlyUnpersistedPageReingested ==
    faults = 0 =>
        \A s \in Slots :
            LET t == w[s]
            IN  /\ ((t.pc = "fetch" \/ t.ppc = "fetch") /\ t.yielded = << >>)
                        => t.gen = params[t.res].from
                /\ (t.pc = "handle" /\ HasDicts(YieldItems(t.res, t.page))
                    /\ t.page \in ingested[t.res])
                        => t.page \notin cursorDone[t.res]

\* C4: within one fill the handler is applied to the non-empty pages in the
\* order the generator yielded them, and the values persisted in from are
\* the yielded cursors in that order (followed by the closing null).
PageCursors(t) == [i \in 1 .. Len(t.yielded) |-> YieldCursor(t.res, t.yielded[i])]

NonEmptyPages(t) ==
    LET nonEmpty(p) == HasDicts(YieldItems(t.res, p))
    IN  SelectSeq(t.yielded, nonEmpty)

C4_PagesInOrder ==
    \A s \in Slots :
        LET t == w[s]
        IN  /\ IsPrefix(t.handled, NonEmptyPages(t))
            /\ IsPrefix(t.froms, Append(PageCursors(t), Null))
            /\ \A i, j \in 1 .. Len(t.yielded) :
                   i < j => t.yielded[i] < t.yielded[j]

\* A pipelined fill has persisted the cursors of three pages.
C4_Witness ==
    \E s \in Slots :
        /\ w[s].ppc # "off"
        /\ Len(w[s].froms) >= 3
        /\ Len(w[s].handled) >= 2

\* C5: in every state of the params collection, a fill_<r> document with
\* fill = false has from = null.
C5_FilledHasNullFrom ==
    \A k \in FillKeys :
        (params[k].exists /\ ~params[k].fill) => params[k].from = Null

\* The keyed pass over the asset-types has marked its document.
C5_Witness ==
    /\ phase = "extra"
    /\ params["assettypes"].exists
    /\ ~params["assettypes"].fill
    /\ flagged # {}

\* C6: a fill_resource call that finds fill = false returns at once: no
\* upstream request, no handler call, no write, fill_<r> unchanged.
C6_FilledIsNoOp ==
    [][\A s \in Slots :
          (/\ w[s].pc = "start"
           /\ params[w[s].res].exists
           /\ ~params[w[s].res].fill
           /\ Moved(s)
           /\ w'[s].pc # "raised")
          => /\ w'[s].pc = "returned"
             /\ w'[s].yielded = << >>
             /\ w'[s].handled = << >>
             /\ w'[s].froms = << >>
             /\ params' = params
             /\ data' = data]_vars

\* A call returned without having requested a page.
C6_Witness ==
    \E s \in Slots : w[s].pc = "returned" /\ w[s].yielded = << >>

\* C7: for a page without items no handler is called and nothing is
\* stored, the step cannot raise, and the page's cursor is persisted.
C7_EmptyPage ==
    [][\A s \in Slots :
          LET t == w[s]
              r == t.res
              empty == t.page # NoPage /\ YieldItems(r, t.page) = {}
          IN  /\ (t.pc = "handle" /\ empty /\ Moved(s))
                  => /\ w'[s].pc = "persist"
                     /\ w'[s].handled = t.handled
                     /\ data' = data
                     /\ ingested' = ingested
              /\ (t.pc = "persist" /\ empty /\ Moved(s)
                  /\ w'[s].pc \notin {"raised", "cfailed"})
                  => params'[r].from = YieldCursor(r, t.page)]_vars

\* The cursor of the empty middle page of assets is the persisted from.
C7_Witness ==
    /\ lastPersist["assets"] # NoPage
    /\ YieldItems("assets", lastPersist["assets"]) = {}
    /\ params["assets"].from = YieldCursor("assets", lastPersist["assets"])
    /\ params["assets"].from # Null

\* C8: no task of group k+1 exists before every resource of the groups up
\* to k has had a fill_resource call that returned without raising.
GroupSet(k) == { Groups[k][i] : i \in 1 .. Len(Groups[k]) }

C8_GroupsInOrder ==
    \A s \in Slots :
        /\ w[s].res \in GroupSet(gi)
        /\ \A k \in 1 .. (gi - 1) : GroupSet(k) \subseteq returnedOk

\* A task of the second group is running.
C8_Witness ==
    gi = 2 /\ \E s \in Slots : Running(w[s])

\* C9: within a group the next attempt submits exactly the resources whose
\* task raised, each once; it is entered only from the back-off; the
\* back-off is always followed by a further attempt; and the group is left
\* only by an attempt in which every task returned.
RaisedIn(ws) == { i \in DOMAIN ws : ws[i].pc = "raised" }

C9_RetryOnlyFailed ==
    /\ [][(cpc = "sleep" /\ cpc' = "submit") =>
            /\ Len(remaining') = Cardinality(RaisedIn(w))
            /\ { remaining'[i] : i \in 1 .. Len(remaining') }
                 = { w[i].res : i \in RaisedIn(w) }]_vars
    /\ [][(phase = "initial" /\ cpc # "submit" /\ cpc' = "submit"
           /\ gi' = gi) => cpc = "sleep"]_vars
    /\ [][(phase = "initial" /\ gi' > gi) =>
            /\ RaisedIn(w) = {}
            /\ \A i \in Slots : w[i].pc = "returned"]_vars
    /\ [](cpc = "sleep" => ENABLED fill_tables_retry)
    /\ []((cpc = "wait" /\ AllCollected /\ RaisedIn(w) # {})
             => ENABLED fill_tables_backoff)

\* A second attempt of the second group is about to submit one resource.
C9_Witness ==
    /\ gi = 2
    /\ cpc = "submit"
    /\ Len(remaining) = 1

\* C10: no two tasks of fill_tables ever work on the same resource.
C10_OneTaskPerResource ==
    \A s1, s2 \in Slots : s1 # s2 => w[s1].res # w[s2].res

\* Two tasks are running at the same time.
C10_Witness ==
    \E s1, s2 \in Slots : s1 # s2 /\ Running(w[s1]) /\ Running(w[s2])

\* The producer is blocked in q.put on a full queue.
ProducerBlocked(t) == t.ppc \in {"put", "sentinel"} /\ QueueFull(t.q)

\* The value of fill_<r>.from that the task wrote last, or found at its start.
PersistedFrom(t) ==
    IF t.froms = << >> THEN t.from0 ELSE t.froms[Len(t.froms)]

\* C11: in every fill mode, when the handler of a page has raised, the
\* fill_resource attempt ends with an error reported to fill_tables (its
\* threads are not left blocked, and the collected task is in failed, which
\* is what the next attempt submits), fill_<r>.from keeps the value it had
\* before that page and fill_<r>.fill stays true.
C11_HandlerFailureRetried ==
    \A s \in Slots :
        LET t == w[s]
            r == t.res
        IN  t.hraised =>
              /\ params[r].exists
              /\ params[r].fill
              /\ params[r].from = PersistedFrom(t)
              /\ ~(t.pc = "cfailed" /\ ProducerBlocked(t))
              /\ t.collected => \E i \in DOMAIN failed : failed[i] = r

\* C12: under fair scheduling, with every failing upstream request and
\* storage write succeeding when retried, fill_tables over the groups
\* (lookups first, then assets and assetrelaties) with non-empty upstream
\* pages eventually returns with every resource marked fill = false.
C12_FillTablesCompletes ==
    (\A r \in Resources : ~IsEmptyUpstream(up[r])) =>
        <>(/\ phase = "initial"
           /\ cpc = "cleanup"
           /\ \A r \in Resources : params[r].exists /\ ~params[r].fill)

\* C13: across a run of the pipeline controller the persisted db_step never
\* moves backwards in the order CREATE_DB, INITIAL_FILL, EXTRA_DATA_FILL,
\* CREATE_INDEXES, APPLY_CONSTRAINTS, FINAL_SYNC; in particular the
\* controller's CreateDBStep never replaces a later step by INITIAL_FILL.
C13_StepMonotonic ==
    [][phase = "run" => StepRank(db_step') >= StepRank(db_step)]_vars

\* The controller has gone through an iteration on a database whose marker
\* is past INITIAL_FILL.
C13_Witness ==
    /\ phase = "run"
    /\ drv.i >= 1
    /\ StepRank(db_step) > StepRank("INITIAL_FILL")

\* C14: in DBPipelineController.run each engine is dispatched only when the
\* persisted marker equals its From state, and when an engine has completed
\* the marker is persisted as its To state before the next engine begins:
\* none/CREATE_DB to INITIAL_FILL after the provisioner, INITIAL_FILL to
\* EXTRA_DATA_FILL after the Initial Fill Engine.
C14_EnginesAdvanceMarker ==
    phase = "run" =>
        /\ drv.pc = "cdb_check" => db_step \in {NoStep, "CREATE_DB"}
        /\ drv.pc = "fill" => db_step = "INITIAL_FILL"
        /\ (drv.pc \in {"stubs", "loop"} /\ drv.ran = "create")
              => db_step = "INITIAL_FILL"
        /\ (drv.pc \in {"stubs", "loop"} /\ drv.ran = "fill")
              => db_step = "EXTRA_DATA_FILL"

C16_ProvisionsFreshDatabase ==
    /\ \A n \in drv.dropped : n \notin SystemNames
    /\ (phase = "idle" /\ drv.pc = "off" /\ drv.ran = "create" /\ drv.fresh)
          =>
          /\ \A g \in graphs : g.name \notin drv.gbefore
          /\ \A n \in drv.before :
                IF n \in SystemNames
                THEN [name |-> n, edge |-> FALSE] \in collections
                ELSE n \in drv.dropped
          /\ Len(doc_collections) = 11
          /\ \A i \in DOMAIN doc_collections :
                [name |-> doc_collections[i], edge |-> FALSE] \in collections
          /\ Len(edge_collections) = 8
          /\ \A i \in DOMAIN edge_collections :
                [name |-> edge_collections[i], edge |-> TRUE] \in collections
          /\ \A k \in { "feed_assets", "feed_agents", "feed_assetrelaties",
                        "feed_betrokkenerelaties" } :
                /\ feeds[k].exists
                /\ feeds[k].page = -1
                /\ feeds[k].event_uuid = Null
          /\ db_step = "INITIAL_FILL"

\* CreateDBStep.execute has completed on the database of an earlier load:
\* a graph, plain collections and a "_" collection were there.
C16_Witness ==
    /\ phase = "idle"
    /\ drv.pc = "off"
    /\ drv.ran = "create"
    /\ drv.fresh
    /\ "legacy_graph" \in drv.gbefore
    /\ {"legacy_nodes", "assets", "_users"} \subseteq drv.before

\* C17: when CreateDBStep.execute runs on a database in which params
\* exists, no collection, no graph, no params document and not the db_step
\* marker is created, dropped or changed, whatever db_step was.
C17_NoOpWhenParamsExists ==
    [][(phase = "create" /\ ~drv.fresh /\ drv.pc \in {"set_step", "off"})
          => UNCHANGED << collections, graphs, feeds, db_step, params >>]_vars

\* The records of the page whose @type is a key of the asset-type lookup,
\* in page order.
KnownRecords(page, lookup) ==
    LET Known(raw) == raw.type \in lookup
    IN  SelectSeq(page, Known)

RECURSIVE SumBs(_)
SumBs(recs) == IF recs = << >> THEN 0 ELSE Head(recs).bs + SumBs(Tail(recs))

\* C18: for every page passed to the assets handler, the asset documents
\* written are exactly the records whose @type is a key of the asset-type
\* lookup, each with assettype_key = lookup[@type]; a record of unknown
\* @type is not written, emits no bestek-coupling edge, is counted, and
\* does not keep the later records of the page from being written.
C18_UnknownTypeSkipped ==
    ah.pc = "done" =>
        LET known == KnownRecords(ah.page, ah.lookup)
        IN  /\ ah.imported =
                  [i \in 1 .. Len(known) |->
                      [key |-> known[i].id,
                       assettype_key |-> 10 + known[i].type]]
            /\ \A d \in ah.assets :
                  \E i \in DOMAIN known : known[i].id = d.key
            /\ \A i \in DOMAIN known :
                  \E d \in ah.assets : d.key = known[i].id
            /\ Len(ah.kimported) = SumBs(known)
            /\ \A j \in DOMAIN ah.kimported :
                  \E i \in DOMAIN known :
                      known[i].id = ah.kimported[j].from /\ known[i].bs > 0
            /\ ah.unknown_type_uris = Len(ah.page) - Len(known)

\* The handler has finished a page in which a record of unknown @type that
\* carries a bestek coupling precedes a record of known @type.
C18_Witness ==
    /\ ah.pc = "done"
    /\ ah.pass = 1
    /\ \E i, j \in DOMAIN ah.page :
          /\ i < j
          /\ ah.page[i].type \notin ah.lookup
          /\ ah.page[i].bs > 0
          /\ ah.page[i].id # ah.page[j].id
          /\ ah.page[j].type \in ah.lookup
          /\ \E d \in ah.assets : d.key = ah.page[j].id

\* C19: for every non-empty page passed to the asset-relations handler, the
\* handler returns without raising (it raises only when the bulk import
\* fails) and the edges of the page's records are imported into
\* assetrelaties.
C19_RelationsImported ==
    \A s \in Slots :
        LET t == w[s]
        IN  t.res = "assetrelaties" =>
              /\ t.hraised => faults > 0
              /\ \A i \in DOMAIN t.handled :
                    YieldItems(t.res, t.handled[i]) \subseteq data[t.res]

\* C20: processing the same page of raw asset records through the assets
\* handler twice leaves the set of document keys in assets and in
\* bestekkoppelingen as it was after the first pass.
C20_ReprocessIdempotent ==
    (ah.pc = "done" /\ ah.pass = 2) =>
        /\ KeysIn(ah.assets) = ah.keys1
        /\ KeysIn(ah.bestekkoppelingen) = ah.kkeys1

RECURSIVE CleanKeys(_, _)
\* No key of value x contains ':' or '.', but for the keys of the top level
\* that start with "@".
CleanKeys(x, top) ==
    IF x.t = "d"
    THEN \A i \in DOMAIN x.v :
            /\ \/ top /\ StartsWithAt(x.v[i].k)
               \/ Find(x.v[i].k, ":") = 0 /\ Find(x.v[i].k, ".") = 0
            /\ CleanKeys(x.v[i].x, FALSE)
    ELSE IF x.t = "l" THEN \A i \in DOMAIN x.v : CleanKeys(x.v[i], FALSE)
    ELSE TRUE

RECURSIVE Canon(_)
\* The value as Python compares it: the items of a dict without their order.
Canon(x) ==
    IF x.t = "d"
    THEN [t |-> "d", v |-> { Item(x.v[i].k, Canon(x.v[i].x)) : i \in DOMAIN x.v }]
    ELSE IF x.t = "l" THEN List([i \in DOMAIN x.v |-> Canon(x.v[i])])
    ELSE x

\* C21: for every raw record, after one pass of key normalization
\* (_transform_keys, or _normalize_asset_top_level_keys followed by
\* _normalize_nested_keys on every top-level value) no key at any depth of
\* the result contains ':' or '.', except top-level keys starting with '@'.
C21_NoNamespacedOrDottedKeys ==
    (nk.pc = "raw" /\ Len(nk.out) >= 1 /\ nk.out[1] # Raised)
        => CleanKeys(nk.out[1], TRUE)

\* C22: key normalization is idempotent: the second pass returns the result
\* of the first.
C22_NormalizeIdempotent ==
    (nk.pc = "raw" /\ Len(nk.out) = 2 /\ nk.out[2] # Raised)
        => Canon(nk.out[2]) = Canon(nk.out[1])

\* C23: after a derived-edge pass for short name s completes, the derived
\* collection holds exactly one edge {_from, _to, source_edge_id,
\* source_edge_key} per active row of assetrelaties of the type of s whose
\* two endpoints exist and are active, and no other edge; it is empty when
\* no relatietype has short name s; the marker is fill = false, from = null.
C23_DerivedEdgesExact ==
    dv.pc = "done" =>
        LET types == { rt \in dv.relatietypes : rt.short = dv.args.short }
        IN  /\ types = {} => dv.edges = {}
            /\ \A rt \in types :
                  /\ \A r \in dv.assetrelaties :
                        ( /\ r.relatietype_key = rt._key
                          /\ r.AIMDBStatus_isActief
                          /\ dv.assets[r._from] = "active"
                          /\ dv.assets[r._to] = "active" )
                        <=> [_from |-> r._from, _to |-> r._to,
                             source_edge_id |-> << "assetrelaties", r._key >>,
                             source_edge_key |-> r._key] \in dv.edges
                  /\ \A e \in dv.edges :
                        \E r \in dv.assetrelaties :
                           /\ e.source_edge_key = r._key
                           /\ e.source_edge_id = << "assetrelaties", r._key >>
                           /\ e._from = r._from
                           /\ e._to = r._to
            /\ dv.marker = [fill |-> FALSE, from |-> Null]

\* A pass completed on a collection that held an edge of an earlier run,
\* with a row copied and a row of the type left out for an inactive endpoint
\* or for being inactive itself.
C23_Witness ==
    /\ dv.pc = "done"
    /\ dv.before # {}
    /\ dv.rt_key # Null
    /\ Cardinality(dv.edges) = 1
    /\ Cardinality({ r \in dv.assetrelaties :
                       r.relatietype_key = dv.rt_key }) >= 2

\* C24: the offset generators treat a null starting offset as 0, yield
\* (from + size, data) for every response with from + size < totalCount and
\* (null, data) as their last pair exactly when from + size >= totalCount;
\* each request uses the offset yielded by the previous pair.
C24_OffsetPaging ==
    pg.pc # "off" /\ pg.gen \in OffsetGenerators =>
        LET n == Len(pg.yields)
        IN  /\ Len(pg.responses) = n
            /\ pg.requests # << >> =>
                  pg.requests[1] = (IF pg.start = Null THEN 0 ELSE pg.start)
            /\ \A i \in 1 .. n :
                  LET j == pg.responses[i]
                  IN  /\ pg.yields[i].data = j.data
                      /\ pg.yields[i].cursor =
                            (IF j.from + j.size < j.totalCount
                             THEN j.from + j.size ELSE Null)
            /\ \A i \in 2 .. Len(pg.requests) :
                  pg.requests[i] = pg.yields[i - 1].cursor
            /\ \A i \in 1 .. (n - 1) : pg.yields[i].cursor # Null
            /\ pg.pc = "done" <=> (n >= 1 /\ pg.yields[n].cursor = Null)
            /\ pg.pc = "loop" => (n >= 1 /\ pg.yields[n].cursor # Null)

\* A generator started at a null offset ended after more than one page.
C24_Witness ==
    /\ pg.pc = "done"
    /\ pg.gen \in OffsetGenerators
    /\ pg.start = Null
    /\ Len(pg.yields) >= 2
    /\ pg.yields[1].cursor = PageSize

\* C25: the cursor generators send the starting cursor as fromCursor in the
\* first request and the cursor of the previous response in each later one,
\* yield (next cursor, @graph) for every response, and stop exactly after
\* the first response without em-paging-next-cursor, whose pair has a null
\* cursor.
C25_CursorPaging ==
    pg.pc # "off" /\ pg.gen \in CursorGenerators =>
        LET n == Len(pg.yields)
        IN  /\ Len(pg.responses) = n
            /\ pg.requests # << >> => pg.requests[1] = pg.start
            /\ \A i \in 2 .. Len(pg.requests) :
                  pg.requests[i] = pg.responses[i - 1].next_cursor
            /\ \A i \in 1 .. n :
                  pg.yields[i] = [cursor |-> pg.responses[i].next_cursor,
                                  data |-> pg.responses[i].graph]
            /\ \A i \in 1 .. (n - 1) : pg.responses[i].next_cursor # Null
            /\ pg.pc = "done" <=>
                  (n >= 1 /\ pg.responses[n].next_cursor = Null)
            /\ pg.pc = "loop" =>
                  (n >= 1 /\ pg.responses[n].next_cursor # Null)

\* A cursor generator started at a cursor ended after more than one page.
C25_Witness ==
    /\ pg.pc = "done"
    /\ pg.gen \in CursorGenerators
    /\ pg.start # Null
    /\ Len(pg.yields) >= 3
    /\ pg.yields[Len(pg.yields)].cursor = Null

\* C26: construction with retries < 1 raises; a request through a requester
\* with retries = n >= 1 makes at most n attempts, returns the first 2xx
\* response without a further attempt, and after n responses that are not
\* 2xx raises an error and returns no response.
C26_RetriesBounded ==
    rq.pc # "off" =>
        LET n == rq.retries
            made == Len(rq.attempts)
            Is2xx(code) == code >= 200 /\ code <= 299
        IN  /\ n < 1 => rq.pc \in {"new", "ValueError"} /\ made = 0
            /\ rq.pc = "ValueError" => n < 1
            /\ n >= 1 => made <= n
            /\ \A i \in 1 .. (made - 1) : ~Is2xx(rq.attempts[i])
            /\ rq.pc = "returned" <=> (made >= 1 /\ Is2xx(rq.attempts[made]))
            /\ rq.pc = "returned" => rq.response = rq.attempts[made]
            /\ rq.pc # "returned" => rq.response = Null
            /\ rq.pc = "RuntimeError" <=>
                  (n >= 1 /\ made = n /\ ~Is2xx(rq.attempts[made]))

\* A request returned a 2xx response other than 200 at its second attempt.
C26_Witness ==
    /\ rq.pc = "returned"
    /\ rq.retries = 3
    /\ rq.attempts = << 500, 204 >>

\* The consumer waits in q.get() on an empty queue whose producer has ended
\* without putting the sentinel.
ConsumerBlocked(t) == t.ppc = "failed" /\ t.pc = "get" /\ t.q = << >>

\* C27: in pipeline mode every fill_resource attempt terminates: it returns
\* after the final page, and when the producer's fetch or the consumer's
\* handler or params update raises the attempt ends with an error that
\* reaches fill_tables; in no reachable state is the producer blocked
\* forever on a full queue or the consumer forever on an empty queue.
C27_PipelineTerminates ==
    \A s \in Slots :
        LET t == w[s]
        IN  Pipelined(t.res) =>
              /\ ~(t.pc = "cfailed" /\ ProducerBlocked(t))
              /\ ~ConsumerBlocked(t)

\* C28: in pipeline mode a resource fill has one producer and one consumer,
\* the queue never holds more than max(1, pipeline_queue_size) = 3 entries,
\* and the consumer removes the entries in the order the producer inserted
\* them: every change of a queue is the producer's append of one entry or
\* the consumer's removal of the oldest one.
C28_BoundedFifoQueue ==
    [][\A s \in DOMAIN w \cap DOMAIN w' :
          LET t == w[s]
              u == w'[s]
          IN  /\ Len(u.q) <= Max(1, DEFAULT_QUEUE_SIZE)
              /\ u.ppc # "off" => use_pipeline /\ UsesEmson(u.res)
              /\ (u.q # t.q /\ u # NewTask(u.res)) =>
                    \/ /\ t.ppc \in {"put", "sentinel"}
                       /\ Len(u.q) = Len(t.q) + 1
                       /\ SubSeq(u.q, 1, Len(t.q)) = t.q
                       /\ u.pc = t.pc
                    \/ /\ t.pc = "get"
                       /\ t.q # << >>
                       /\ u.q = Tail(t.q)
                       /\ u.ppc = t.ppc
                       /\ Head(t.q) = Sentinel \/ u.page = Head(t.q)]_vars

\* The producer waits in q.put on a queue of three entries while the
\* consumer handles an earlier page.
C28_Witness ==
    \E s \in Slots :
        /\ Len(w[s].q) = 3
        /\ ProducerBlocked(w[s])
        /\ w[s].pc = "handle"

RECURSIVE PagesFrom(_, _)
\* The pages the upstream of resource r serves from page p on, in order.
PagesFrom(r, p) ==
    << p >> \o (IF CursorNext(up[r].pages, p) = Null THEN << >>
                ELSE PagesFrom(r, CursorNext(up[r].pages, p)))

\* C29: when no call fails, pipeline mode and sequential mode of
\* _fill_resource_using_emson make the same handler calls and the same
\* params updates in the same order and end in the same params and data:
\* in either mode a returned fill has handled the non-empty pages of the
\* upstream in order, written the cursor of every page and then the closing
\* update, and left fill = false, from = null and the records its handler
\* imports from every page in data.
C29_ModesEquivalent ==
    \A s \in Slots :
        LET t == w[s]
            r == t.res
            pages == PagesFrom(r, PageOf(t.from0))
            served == { pages[i] : i \in DOMAIN pages }
            nonEmpty(p) == up[r].pages[p + 1] # {}
        IN  ( /\ UsesEmson(r)
              /\ t.pc = "returned"
              /\ t.yielded # << >>
              /\ faults = 0
              /\ crashes = 0 ) =>
                /\ t.yielded = pages
                /\ t.handled = SelectSeq(pages, nonEmpty)
                /\ t.froms =
                      [i \in DOMAIN pages |-> CursorNext(up[r].pages, pages[i])]
                      \o << Null >>
                /\ params[r] = [exists |-> TRUE, fill |-> FALSE, from |-> Null]
                /\ t.from0 = Null =>
                      data[r] =
                          UNION { Imported(data, r, up[r].pages[p + 1]) :
                                    p \in served }

\* A fill in pipeline mode returned after four pages, three of them handled.
C29_Witness ==
    /\ use_pipeline
    /\ faults = 0
    /\ crashes = 0
    /\ \E s \in Slots :
          /\ UsesEmson(w[s].res)
          /\ w[s].pc = "returned"
          /\ Len(w[s].handled) = 3
          /\ Len(w[s].froms) = 5

\* C30: when CreateDBStep.execute is interrupted at any point on an
\* uninitialized database and executed again, then whenever db_step is
\* INITIAL_FILL every declared document and edge collection exists and the
\* four feed markers are present in params.
C30_ProvisioningIdempotent ==
    db_step = "INITIAL_FILL" =>
        /\ \A i \in DOMAIN doc_collections :
              [name |-> doc_collections[i], edge |-> FALSE] \in collections
        /\ \A i \in DOMAIN edge_collections :
              [name |-> edge_collections[i], edge |-> TRUE] \in collections
        /\ \A k \in FeedKeys : feeds[k].exists

C32_OffsetsIncrease ==
    pg.pc \in {"loop", "done"} /\ pg.gen \in OffsetGenerators =>
        \A i, j \in DOMAIN pg.requests :
            i < j => pg.requests[i] < pg.requests[j]

\* C33: in the assets handler the pending asset batch never holds more than
\* ASSET_IMPORT_CHUNK_SIZE documents and the pending bestek-coupling batch
\* never more than BESTEK_IMPORT_CHUNK_SIZE edges; when the handler has
\* returned both batches are empty and every record of a known type has been
\* imported.
C33_BatchesFlushedAtThreshold ==
    ah.pc # "off" =>
       /\ Len(ah.docs_batch) <= ASSET_IMPORT_CHUNK_SIZE
       /\ Len(ah.kopp_batch) <= BESTEK_IMPORT_CHUNK_SIZE
       /\ ah.pc = "done" =>
             /\ ah.docs_batch = << >>
             /\ ah.kopp_batch = << >>
             /\ \A i \in DOMAIN ah.page :
                   ~IsUnknown(lookup_get(ah.lookup, ah.page[i].type)) =>
                      ah.page[i].id \in KeysIn(ah.assets)

\* The keys a keyed pass has issued its updates for.
Processed(r) == IF r = "assettypes" THEN flagged ELSE vplankoppelingen

\* The updates of one key are issued.
KeyProcessed == ex.pc = "update" /\ ex'.pc = "persist"

\* fill_<r>.from only holds a key whose updates were issued, and a pass that
\* is marked filled has processed every key of its sorted list.
KeyedPassInv ==
    \A r \in KeyedPasses :
       /\ params[r].exists /\ params[r].from # Null =>
             params[r].from \in Processed(r)
       /\ params[r].exists /\ ~params[r].fill =>
             \A i \in DOMAIN KeysOf(r) : KeysOf(r)[i] \in Processed(r)

\* The walk goes up the key list, and no key below the persisted from is
\* processed.
KeyedPassStep ==
    LET r == resources_to_fill[ex.i]
    IN  /\ KeyProcessed =>
           /\ \A j \in 1 .. (ex.k - 1) : ex.keys[j] < ex.keys[ex.k]
           /\ params[r].from # Null => ex.keys[ex.k] >= params[r].from
        /\ ex.pc = "persist" /\ ex'.pc \in {"update", "mark"} => ex'.k > ex.k

UpstreamRefs == {11, 12}

ConnectionRefOf(a) == IF a = 1 THEN 11 ELSE Null

\* uuid[:8]
First8(uuid) == uuid % 10

\* C35: when fill_aansluitingrefs and fill_aansluitingen are marked
\* fill = false, aansluitingrefs holds one document per reference of the
\* upstream reference list, keyed by the first 8 characters of its uuid, and
\* aansluitingen holds one edge per asset with a connection reference.
C35_ConnectionsFilled ==
    (\A r \in MarkOnlyPasses : params[r].exists /\ ~params[r].fill) =>
       /\ derived["aansluitingrefs"] = { First8(u) : u \in UpstreamRefs }
       /\ derived["aansluitingen"] =
              { a \in data["assets"] : ConnectionRefOf(a) # Null }

\* C36: the rebuild of a derived edge collection is atomic: every change of
\* the collection installs the rebuilt content, so that it is never
\* observable truncated but not rebuilt, or partially rebuilt, also when the
\* process is terminated.
C36_RebuildAtomic ==
    [][\A c \in DerivedPasses :
          derived'[c] # derived[c] => derived'[c] = DerivedEdges(c)]_vars

\* Both fills have completed: every pass of both engines is marked filled.
BothFillsCompleted ==
    \A r \in FillKeys : params[r].exists /\ ~params[r].fill

\* C37: the fill_* documents of params are deleted only after both the
\* initial fill and the extra fill have completed.
C37_MarkersSweptLast ==
    [][(\E r \in FillKeys : params[r].exists /\ ~params'[r].exists)
          => BothFillsCompleted]_vars

\* The capability pass of an ExtraFillStep.execute that follows
\* InitialFillStep.execute is at work.
CapabilityPass ==
    phase = "extra" /\ ex.i = 1 /\ resources_to_fill[ex.i] = "assettypes"

PointZOf(coords, p) ==
    Str(<< "POINT Z (" >>
        \o Get(coords, << p, "_", "xcoordinaat" >>).v \o << " " >>
        \o Get(coords, << p, "_", "ycoordinaat" >>).v \o << " " >>
        \o Get(coords, << p, "_", "zcoordinaat" >>).v \o << ")" >>)

WktByPriority(obj) ==
    LET log == Get(Get(obj, << "geo" >>), << "Geometrie", "_", "log" >>)
        first == IF Truthy(log)
                 THEN Get(log.v[1], << "DtcLog", "_", "geometrie" >>)
                 ELSE None
        loc == Get(obj, << "loc" >>)
        val == Get(loc, << "Locatie", "_", "geometrie" >>)
        container ==
            Get(Get(loc, << "Locatie", "_", "puntlocatie" >>),
                << "3Dpunt", "_", "puntgeometrie" >>)
        l72 == << "DtcCoord", "_", "lambert72" >>
        l2008 == << "DtcCoord", "_", "lambert2008" >>
    IN  IF Truthy(first) THEN first.v[1].x
        ELSE IF Truthy(val) THEN val
        ELSE IF Has(container, l72)
        THEN PointZOf(Get(container, l72), "DtcCoordLambert72")
        ELSE IF Has(container, l2008)
        THEN PointZOf(Get(container, l2008), "DtcCoordLambert2008")
        ELSE None

\* C39: on a key-normalized asset the WKT is the first value of
\* geo.Geometrie_log[0].DtcLog_geometrie, else the non-empty
\* loc.Locatie_geometrie, else POINT Z (x y z) of DtcCoord_lambert72 under
\* loc.Locatie_puntlocatie.3Dpunt_puntgeometrie, else the same of
\* DtcCoord_lambert2008; no geometry only when none of the four is present.
C39_WktPriority == nk.pc = "wkt" => nk.wkt = WktByPriority(nk.obj)

====
